---- MODULE Spec2Model ----
(***************************************************************************)
(* Model of the spreadsheet compression pipeline (Core/utils/helpers.py,   *)
(* Core/parser.py, Core/encoder.py, Core/compressor.py).                   *)
(*                                                                         *)
(* Strings are sequences of character codes (ASCII), so that formatting,   *)
(* parsing and Python's lexicographic list.sort() are computed as the code *)
(* computes them.                                                          *)
(***************************************************************************)
EXTENDS Integers, Sequences, FiniteSets, TLC

VARIABLES
    pc,                 \* position of the operation under way
    row, col,           \* helpers: the (row, col) handed to get_cell_address
    address,            \* helpers: the formatted address string
    parsed,             \* helpers: what parse_cell_address returned
    addresses,          \* encoder: the address list handed to a range routine
    ranges,             \* encoder: result list of _compress_address_ranges
    found,              \* encoder: _find_rectangles' list before the leftovers
    rectangles,         \* encoder: result list of _find_rectangles
    sheet_matrix,       \* the SheetMatrix handed to the operation
    anchor_proximity,   \* StructuralAnchorStrategy.anchor_proximity
    rows_to_keep,       \* apply: rows retained
    cols_to_keep,       \* apply: columns retained
    compressed_matrix,  \* apply: the SheetMatrix returned
    max_tokens,         \* SpreadsheetEncoder.max_tokens
    use_inverted_index, \* SpreadsheetEncoder.use_inverted_index
    use_format_aggregation, \* SpreadsheetEncoder.use_format_aggregation
    token_count,        \* encode_sheet: estimate_tokens(encoded), the direct text
    encoded,            \* encode_sheet: the text returned
    error,              \* the exception the call ended with, or None
    chunk_calls,        \* number of calls of _chunk_encode_sheet
    original_tokens,    \* compress_with_best_method: original_tokens
    method_idx,         \* compress_with_best_method: index into methods
    best_ratio,         \* compress_with_best_method: best_ratio
    best_method,        \* compress_with_best_method: best_method
    best_encoded,       \* compress_with_best_method: best_encoded
    evaluated,          \* the configurations tried so far, in order, with their outcome
    output_file,        \* the text written to <prefix>_compressed.json, or None
    result,             \* the dict returned, or NoResult
    original_encoded,   \* compress_with_best_method: original_encoded
    filename_prefix,    \* compress_with_best_method: filename_prefix
    module_globals,     \* names bound in the namespace of Core.compressor by its importer
    metadata_file,      \* the persisted metadata_index.json
    index,              \* MetadataIndex.index of each worker
    worker_pc,          \* position of each worker in its MetadataIndex calls
    logged,             \* workers whose failed save was logged
    surfaced,           \* workers to whose caller an exception was raised
    got_cell,           \* what SheetMatrix.get_cell returned
    format_section,     \* what _generate_aggregated_format_section returned
    anchors,            \* _expand_anchors: the anchors handed to it
    max_index,          \* _expand_anchors: max_index
    expanded,           \* _expand_anchors: the set returned
    anchor_rows,        \* _find_anchor_rows: the set returned
    anchor_cols,        \* _find_anchor_cols: the set returned
    chunking,           \* _chunk_encode_sheet: header_rows, rows_per_chunk, num_chunks
    compressed_index,   \* _generate_inverted_index_text: the dict that is dumped
    strategies          \* SheetCompressor.strategies

addrVars == <<row, col, address, parsed>>
listVars == <<addresses, ranges, found, rectangles>>
anchorVars == <<anchor_proximity, rows_to_keep, cols_to_keep, compressed_matrix>>
encoderVars == <<max_tokens, use_inverted_index, use_format_aggregation,
                 token_count, encoded, error, chunk_calls>>
bestVars == <<original_tokens, method_idx, best_ratio, best_method, best_encoded,
              evaluated, output_file, result, original_encoded,
              filename_prefix, module_globals>>
metaVars == <<metadata_file, index, worker_pc, logged, surfaced>>
gridVars == <<got_cell, format_section>>
routineVars == <<anchors, max_index, expanded, anchor_rows, anchor_cols, chunking,
                 compressed_index, strategies>>
vars == <<pc, addrVars, listVars, sheet_matrix, anchorVars, encoderVars, bestVars,
          metaVars, gridVars, routineVars>>

\* A value no program value equals.
None == "None"

(***************************************************************************)
(* Bounds of the model.                                                    *)
(***************************************************************************)
MaxAddrRow == 11
MaxAddrCol == 704
\* The address lists handed to the range routines hold cells of the rows
\* RangeRowLo .. RangeRowLo + RangeRowCount - 1 (one- and two-digit rows) and
\* of the columns of RangeCols (X, Y, Z, AA, AB).
RangeRowLo == 9
RangeRowCount == 2
RangeCols == 24..28
\* Sheets have up to MaxRow rows and MaxCol columns; anchors are expanded by
\* up to MaxProximity indices.
MaxRow == 6
MaxCol == 3
MaxProximity == 1
MaxAxis == 5
MaxFindAxis == 6
MaxIndexRow == 3
\* Sheets handed to the encoder have up to MaxEncRow rows and EncCols columns;
\* their first HeadRows rows vary, the rows below hold numbers.
MaxEncRow == 45
EncCols == 2
HeadRows == 3
MaxTokenValue == 4
GridRows == 2
GridCols == 2
BlockRows == 3
BlockCols == 3
MaxOffset == 2
NumWorkers == 2
MaxOriginalTokens == 10
LargeRows == 250
LargeCols == 200

(***************************************************************************)
(* Characters and strings.                                                 *)
(***************************************************************************)
OrdA == 65
OrdZero == 48

IsAlpha(c) == (c >= 65 /\ c <= 90) \/ (c >= 97 /\ c <= 122)
IsUpperAZ(c) == c >= 65 /\ c <= 90
IsDigit(c) == c >= 48 /\ c <= 57
Upper(c) == IF c >= 97 /\ c <= 122 THEN c - 32 ELSE c

\* ''.join(c for c in s if pred(c))
RECURSIVE FilterAlpha(_)
FilterAlpha(s) ==
    IF s = <<>> THEN <<>>
    ELSE IF IsAlpha(Head(s)) THEN <<Head(s)>> \o FilterAlpha(Tail(s))
    ELSE FilterAlpha(Tail(s))

RECURSIVE FilterDigit(_)
FilterDigit(s) ==
    IF s = <<>> THEN <<>>
    ELSE IF IsDigit(Head(s)) THEN <<Head(s)>> \o FilterDigit(Tail(s))
    ELSE FilterDigit(Tail(s))

\* str(n) for an integer n >= 0
RECURSIVE IntToStr(_)
IntToStr(n) ==
    IF n < 10 THEN <<OrdZero + n>>
    ELSE IntToStr(n \div 10) \o <<OrdZero + (n % 10)>>

\* int(s) for a string of decimal digits
RECURSIVE StrToInt(_)
StrToInt(s) ==
    IF s = <<>> THEN 0
    ELSE StrToInt(SubSeq(s, 1, Len(s) - 1)) * 10 + (s[Len(s)] - OrdZero)

\* Python's str < str: code point by code point, a proper prefix is smaller.
RECURSIVE StrLess(_, _)
StrLess(a, b) ==
    IF b = <<>> THEN FALSE
    ELSE IF a = <<>> THEN TRUE
    ELSE IF Head(a) < Head(b) THEN TRUE
    ELSE IF Head(a) > Head(b) THEN FALSE
    ELSE StrLess(Tail(a), Tail(b))

(***************************************************************************)
(* Core/utils/helpers.py: addresses.                                       *)
(***************************************************************************)
\* A seeded slip: divmod(col_idx, 26) instead of divmod(col_idx - 1, 26).
RECURSIVE get_column_letter_off_by_one(_)
get_column_letter_off_by_one(col_idx) ==
    IF col_idx <= 0 THEN <<>>
    ELSE get_column_letter_off_by_one(col_idx \div 26)
             \o <<OrdA + (col_idx % 26)>>

RECURSIVE get_column_letter_loop(_)
get_column_letter_loop(col_idx) ==
    IF col_idx <= 0 THEN <<>>
    ELSE get_column_letter_loop((col_idx - 1) \div 26)
             \o <<OrdA + ((col_idx - 1) % 26)>>

get_column_letter(col_idx) == get_column_letter_loop(col_idx)

RECURSIVE get_column_index(_)
get_column_index(col_letter) ==
    IF col_letter = <<>> THEN 0
    ELSE get_column_index(SubSeq(col_letter, 1, Len(col_letter) - 1)) * 26
             + (Upper(col_letter[Len(col_letter)]) - 64)

get_cell_address(r, c) == get_column_letter(c) \o IntToStr(r)

\* Length of the longest prefix of s whose characters satisfy the class.
RECURSIVE UpperPrefixLen(_)
UpperPrefixLen(s) ==
    IF s = <<>> \/ ~IsUpperAZ(Head(s)) THEN 0 ELSE 1 + UpperPrefixLen(Tail(s))

RECURSIVE DigitPrefixLen(_)
DigitPrefixLen(s) ==
    IF s = <<>> \/ ~IsDigit(Head(s)) THEN 0 ELSE 1 + DigitPrefixLen(Tail(s))

\* re.match(r'([A-Z]+)(\d+)', address): greedy letters, then greedy digits,
\* anchored at the start only.  No match raises ValueError.
parse_cell_address(a) ==
    LET nl == UpperPrefixLen(a)
        rest == SubSeq(a, nl + 1, Len(a))
        nd == DigitPrefixLen(rest)
    IN  IF nl = 0 \/ nd = 0 THEN "ValueError"
        ELSE <<StrToInt(SubSeq(rest, 1, nd)), get_column_index(SubSeq(a, 1, nl))>>

(***************************************************************************)
(* Core/encoder.py: _column_letter_to_number and _compress_address_ranges. *)
(***************************************************************************)
Colon == 58

RECURSIVE column_letter_to_number(_)
column_letter_to_number(column_letter) ==
    IF column_letter = <<>> THEN 0
    ELSE column_letter_to_number(SubSeq(column_letter, 1, Len(column_letter) - 1)) * 26
             + (Upper(column_letter[Len(column_letter)]) - OrdA + 1)

\* list.sort() on strings: insertion into an ascending list.
RECURSIVE InsertStr(_, _)
InsertStr(x, s) ==
    IF s = <<>> THEN <<x>>
    ELSE IF StrLess(x, Head(s)) THEN <<x>> \o s
    ELSE <<Head(s)>> \o InsertStr(x, Tail(s))

RECURSIVE SortStrings(_)
SortStrings(s) ==
    IF s = <<>> THEN <<>> ELSE InsertStr(Head(s), SortStrings(Tail(s)))

\* A seeded slip: a run of 2 is compressed too.
EmitRunFromTwo(current_range) ==
    IF Len(current_range) >= 2
    THEN <<current_range[1] \o <<Colon>> \o current_range[Len(current_range)]>>
    ELSE current_range

\* Lines 260-263 and 272-275: a run of 3 or more becomes "first:last",
\* a shorter run is listed address by address.
EmitRun(current_range) ==
    IF Len(current_range) >= 3
    THEN <<current_range[1] \o <<Colon>> \o current_range[Len(current_range)]>>
    ELSE current_range

\* The loop of lines 248-269 from index i on.
RECURSIVE ScanRuns(_, _, _, _, _, _)
ScanRuns(sorted, i, current_range, current_row, current_col_num, acc) ==
    IF i > Len(sorted) THEN acc \o EmitRun(current_range)
    ELSE LET addr == sorted[i]
             r == FilterDigit(addr)
             col_num == column_letter_to_number(FilterAlpha(addr))
         IN  IF r = current_row /\ col_num = current_col_num + 1
             THEN ScanRuns(sorted, i + 1, Append(current_range, addr),
                           current_row, col_num, acc)
             ELSE ScanRuns(sorted, i + 1, <<addr>>, r, col_num,
                           acc \o EmitRun(current_range))

compress_address_ranges(addrs) ==
    IF addrs = <<>> THEN <<>>
    ELSE LET sorted == SortStrings(addrs)
         IN  ScanRuns(sorted, 2, <<sorted[1]>>, FilterDigit(sorted[1]),
                      column_letter_to_number(FilterAlpha(sorted[1])), <<>>)

(***************************************************************************)
(* Core/encoder.py: _find_rectangles.                                      *)
(***************************************************************************)
\* range(1, 100) of the height loop.
HeightLimit == 100

\* Lines 378-383: each address parsed to (row, col, addr).
ParseCoordinate(addr) ==
    <<StrToInt(FilterDigit(addr)), column_letter_to_number(FilterAlpha(addr)), addr>>

\* Python's tuple order on (row, col, addr).
CoordLess(a, b) ==
    \/ a[1] < b[1]
    \/ a[1] = b[1] /\ a[2] < b[2]
    \/ a[1] = b[1] /\ a[2] = b[2] /\ StrLess(a[3], b[3])

\* coordinates.sort(): the tuples in ascending order.  The place of a tuple
\* is the number of tuples below it, equal tuples keeping their order.  (The
\* concatenations with <<>> make TLC compute each list once.)
SortCoordinates(s) ==
    LET parsed_all == <<>> \o [i \in 1..Len(s) |-> ParseCoordinate(s[i])]
        place == <<>> \o [i \in 1..Len(s) |->
                     Cardinality({ j \in 1..Len(s) :
                         \/ CoordLess(parsed_all[j], parsed_all[i])
                         \/ j <= i /\ parsed_all[j] = parsed_all[i] })]
    IN  <<>> \o [k \in 1..Len(s) |->
                    parsed_all[CHOOSE i \in 1..Len(s) : place[i] = k]]

\* Lines 398-404: the width scan from index i on.
RECURSIVE WidthScan(_, _, _, _, _, _)
WidthScan(coordinates, i, start_row, start_col, max_width, remaining) ==
    IF i > Len(coordinates) THEN max_width
    ELSE LET c == coordinates[i]
         IN  IF c[1] = start_row /\ c[2] = start_col + max_width /\ c[3] \in remaining
             THEN WidthScan(coordinates, i + 1, start_row, start_col,
                            max_width + 1, remaining)
             ELSE IF c[1] > start_row THEN max_width
             ELSE WidthScan(coordinates, i + 1, start_row, start_col,
                            max_width, remaining)

\* Lines 419-423: the address stored for a coordinate, or None (modelled by
\* the empty string, which no address is).
NoAddr == <<>>

\* The first entry of the list, from index i on, with the coordinate.
AddrFrom(coordinates, i, r, c) ==
    LET at == { j \in i..Len(coordinates) :
                  coordinates[j][1] = r /\ coordinates[j][2] = c }
    IN  IF at = {} THEN NoAddr
        ELSE coordinates[CHOOSE j \in at : \A k \in at : j <= k][3]

AddrAt(coordinates, r, c) == AddrFrom(coordinates, 1, r, c)

\* A seeded slip: only the first cell of the row is looked up.
RowCompleteFirstCellOnly(coordinates, current_row, start_col, max_width, remaining) ==
    LET current_addr == AddrAt(coordinates, current_row, start_col)
    IN  current_addr # NoAddr /\ current_addr \in remaining

\* Lines 416-427: every cell of the row exists and is unclaimed.
RowComplete(coordinates, current_row, start_col, max_width, remaining) ==
    \A width \in 0..(max_width - 1) :
        LET current_addr == AddrAt(coordinates, current_row, start_col + width)
        IN  current_addr # NoAddr /\ current_addr \in remaining

\* A seeded slip: the height loop gives up after the second row.
HeightScanTwoRows(coordinates, height, start_row, start_col, max_width, remaining, max_height) ==
    IF RowComplete(coordinates, start_row + 1, start_col, max_width, remaining)
    THEN 2 ELSE 1

\* Lines 413-432: the height loop from `height` on; max_height so far.
RECURSIVE HeightScan(_, _, _, _, _, _, _)
HeightScan(coordinates, height, start_row, start_col, max_width, remaining, max_height) ==
    IF height >= HeightLimit THEN max_height
    ELSE IF ~RowComplete(coordinates, start_row + height, start_col, max_width, remaining)
    THEN max_height
    ELSE HeightScan(coordinates, height + 1, start_row, start_col, max_width,
                    remaining, height + 1)

\* Lines 446-450: the addresses of the block, discarded from remaining.
BlockAddrs(coordinates, start_row, start_col, max_height, max_width) ==
    { coordinates[i][3] : i \in { j \in 1..Len(coordinates) :
          /\ coordinates[j][1] >= start_row
          /\ coordinates[j][1] < start_row + max_height
          /\ coordinates[j][2] >= start_col
          /\ coordinates[j][2] < start_col + max_width } }

\* Lines 393-395: the first index from start_idx on whose address is still
\* unclaimed, the claimed corners being skipped; 0 when there is none.
NextUnclaimed(coordinates, start_idx, remaining) ==
    LET unclaimed == { j \in start_idx..Len(coordinates) :
                         coordinates[j][3] \in remaining }
    IN  IF unclaimed = {} THEN 0
        ELSE CHOOSE j \in unclaimed : \A k \in unclaimed : j <= k

\* Lines 393-450: the corner loop from start_idx on.  The result is the
\* rectangle list and the addresses still unclaimed.
RECURSIVE CornerLoop(_, _, _, _)
CornerLoop(coordinates, start_idx, remaining, rects) ==
    LET idx == NextUnclaimed(coordinates, start_idx, remaining)
    IN  IF idx = 0 THEN [found |-> rects, remaining |-> remaining]
        ELSE LET start_row == coordinates[idx][1]
                 start_col == coordinates[idx][2]
                 start_addr == coordinates[idx][3]
                 max_width == WidthScan(coordinates, idx + 1, start_row,
                                        start_col, 1, remaining)
                 max_height == HeightScan(coordinates, 1, start_row, start_col,
                                          max_width, remaining, 1)
             IN  IF max_width < 2 \/ max_height < 2
                 THEN CornerLoop(coordinates, idx + 1, remaining, rects)
                 ELSE CornerLoop(coordinates, idx + 1,
                          remaining \ BlockAddrs(coordinates, start_row, start_col,
                                                 max_height, max_width),
                          Append(rects,
                              start_addr \o <<Colon>> \o
                              get_cell_address(start_row + max_height - 1,
                                               start_col + max_width - 1)))

\* list(remaining): the set in some order (the order is sorted away by
\* _compress_address_ranges).
RECURSIVE SetToSeq(_)
SetToSeq(S) ==
    IF S = {} THEN <<>>
    ELSE LET x == CHOOSE y \in S : TRUE IN <<x>> \o SetToSeq(S \ {x})

\* Lines 372-451: the rectangles found, before the leftovers are appended.
find_rectangles_corners(addrs) ==
    LET coordinates == SortCoordinates(addrs)
    IN  CornerLoop(coordinates, 1, { addrs[i] : i \in 1..Len(addrs) }, <<>>)

\* A seeded slip: the addresses left unclaimed are not appended.
WithLeftoversDropped(res) == res.found

\* Lines 452-458: the leftovers, compressed, follow the rectangles.
WithLeftovers(res) ==
    IF res.remaining # {}
    THEN res.found \o compress_address_ranges(SetToSeq(res.remaining))
    ELSE res.found

find_rectangles(addrs) ==
    IF Len(addrs) < 4 THEN <<>>
    ELSE WithLeftovers(find_rectangles_corners(addrs))

(***************************************************************************)
(* Core/parser.py: Cell, CellFormat, SheetMatrix.                          *)
(*                                                                         *)
(* A Python value is the record [t |-> its type, s |-> str(value)].  A     *)
(* matrix is a list of rows, each a list of cells or NoCell (None).        *)
(***************************************************************************)
NoneValue == [t |-> "NoneType", s |-> "None"]
NoFormat == [absent |-> TRUE]
NoCell == [value |-> NoneValue, data_type |-> "None", format |-> NoFormat]

\* Python truthiness of an Optional[str].
Truthy(x) == x # None /\ x # ""

str(value) == value.s

CellFormat(formats, bg_color, font_color, borders) ==
    [formats |-> formats, bg_color |-> bg_color, font_color |-> font_color,
     borders |-> borders]

Cell(value, data_type, format) ==
    [value |-> value, data_type |-> data_type, format |-> format]

SheetMatrix(matrix, merged_cells, sheet_name, max_row, max_col) ==
    [matrix |-> matrix, merged_cells |-> merged_cells, sheet_name |-> sheet_name,
     max_row |-> max_row, max_col |-> max_col]

\* SheetMatrix.get_cell: None outside the bounds.
get_cell(sheet, r, c) ==
    IF 1 <= r /\ r <= sheet.max_row /\ 1 <= c /\ c <= sheet.max_col
    THEN sheet.matrix[r][c]
    ELSE NoCell

InBounds(sheet, r, c) ==
    1 <= r /\ r <= sheet.max_row /\ 1 <= c /\ c <= sheet.max_col

\* A call of get_cell as its caller sees it: the value returned, and the
\* exception raised, if any.  Neither branch of lines 57-59 raises.
get_cell_call_checked(sheet, r, c) ==
    IF InBounds(sheet, r, c)
    THEN [returned |-> get_cell(sheet, r, c), raised |-> None]
    ELSE [returned |-> NoCell, raised |-> "IndexError"]

get_cell_call(sheet, r, c) ==
    [returned |-> get_cell(sheet, r, c), raised |-> None]

\* `cell and cell.value is not None`
Populated(cell) == cell # NoCell /\ cell.value # NoneValue

(***************************************************************************)
(* Core/compressor.py: StructuralAnchorStrategy.                           *)
(*                                                                         *)
(* Scores are kept as integers: a row score is doubled, a column score is  *)
(* multiplied by twice the number of populated cells of the column, so the *)
(* thresholds 3.0 and 2.0 are compared exactly.                            *)
(***************************************************************************)
PrimaryThreshold2 == 6
SecondaryThreshold2 == 4
SecondaryMinAxis == 5
MinAnchors == 3

PopulatedInRow(sheet, r) ==
    { c \in 1..sheet.max_col : Populated(get_cell(sheet, r, c)) }
PopulatedInCol(sheet, c) ==
    { r \in 1..sheet.max_row : Populated(get_cell(sheet, r, c)) }

HasBorders(cell) == cell.format # NoFormat /\ cell.format.borders # {}
HasColors(cell) ==
    cell.format # NoFormat /\ (Truthy(cell.format.bg_color) \/ Truthy(cell.format.font_color))
HasEmphasis(cell) ==
    cell.format # NoFormat /\ ("BOLD" \in cell.format.formats \/ "ITALIC" \in cell.format.formats)

Flag(b, weight) == IF b THEN weight ELSE 0

\* Twice the row_score of lines 106-111.
RowScore2(sheet, r) ==
    LET cells == { get_cell(sheet, r, c) : c \in PopulatedInRow(sheet, r) }
        value_changes == Cardinality({ str(x.value) : x \in cells })
    IN  value_changes * 4
          + Flag(\E x \in cells : HasBorders(x), 3)
          + Flag(\E x \in cells : HasColors(x), 2)
          + Flag(\E x \in cells : HasEmphasis(x), 2)

\* A seeded slip: the first and the last row are not forced in.
find_anchor_rows_unforced(sheet) ==
    { r \in 1..sheet.max_row : RowScore2(sheet, r) >= PrimaryThreshold2 }

find_anchor_rows(sheet) ==
    LET primary == { r \in 1..sheet.max_row : RowScore2(sheet, r) >= PrimaryThreshold2 }
        forced == primary \cup (IF sheet.max_row > 0 THEN {1, sheet.max_row} ELSE {})
    IN  IF Cardinality(forced) < MinAnchors /\ sheet.max_row > SecondaryMinAxis
        THEN forced \cup { r \in 1..sheet.max_row :
                               RowScore2(sheet, r) >= SecondaryThreshold2 }
        ELSE forced

\* The col_score of lines 176-182 times 2 * total_cells, and total_cells.
ColScoreNum(sheet, c) ==
    LET rows == PopulatedInCol(sheet, c)
        cells == { get_cell(sheet, r, c) : r \in rows }
        total_cells == Cardinality(rows)
        value_changes == Cardinality({ str(x.value) : x \in cells })
        has_nonumeric == Cardinality({ r \in rows :
            get_cell(sheet, r, c).data_type \notin {"INT_NUM", "FLOAT_NUM"} })
    IN  value_changes * 3 * total_cells
          + has_nonumeric * 6
          + total_cells * ( Flag(\E x \in cells : HasBorders(x), 3)
                          + Flag(\E x \in cells : HasColors(x), 2)
                          + Flag(\E x \in cells : HasEmphasis(x), 2) )

\* col_score >= threshold, the threshold given doubled.
ColScoreAtLeast(sheet, c, threshold2) ==
    LET total_cells == Cardinality(PopulatedInCol(sheet, c))
    IN  IF total_cells = 0 THEN 0 >= threshold2
        ELSE ColScoreNum(sheet, c) >= threshold2 * total_cells

\* A seeded slip: the secondary threshold is tried on an axis of any size.
find_anchor_cols_any_axis(sheet) ==
    LET primary == { c \in 1..sheet.max_col : ColScoreAtLeast(sheet, c, PrimaryThreshold2) }
        forced == primary \cup (IF sheet.max_col > 0 THEN {1, sheet.max_col} ELSE {})
    IN  IF Cardinality(forced) < MinAnchors
        THEN forced \cup { c \in 1..sheet.max_col :
                               ColScoreAtLeast(sheet, c, SecondaryThreshold2) }
        ELSE forced

find_anchor_cols(sheet) ==
    LET primary == { c \in 1..sheet.max_col : ColScoreAtLeast(sheet, c, PrimaryThreshold2) }
        forced == primary \cup (IF sheet.max_col > 0 THEN {1, sheet.max_col} ELSE {})
    IN  IF Cardinality(forced) < MinAnchors /\ sheet.max_col > SecondaryMinAxis
        THEN forced \cup { c \in 1..sheet.max_col :
                               ColScoreAtLeast(sheet, c, SecondaryThreshold2) }
        ELSE forced

\* A seeded slip: the neighbours are not clipped to 1..max_index.
expand_anchors_unclipped(anchor_set, max_idx, proximity) ==
    anchor_set \cup UNION { (a - proximity)..(a + proximity) : a \in anchor_set }

expand_anchors(anchor_set, max_idx, proximity) ==
    anchor_set
      \cup UNION { { a - i : i \in { j \in 1..proximity : a - j >= 1 } }
                       : a \in anchor_set }
      \cup UNION { { a + i : i \in { j \in 1..proximity : a + j <= max_idx } }
                       : a \in anchor_set }

\* A seeded slip: a range is kept only when all its endpoints are retained.
RECURSIVE KeptMergedWhole(_, _, _)
KeptMergedWhole(merged_cells, rows, cols) ==
    IF merged_cells = <<>> THEN <<>>
    ELSE LET m == Head(merged_cells)
         IN  (IF (m[1] \in rows /\ m[3] \in rows) /\ (m[2] \in cols /\ m[4] \in cols)
              THEN <<m>> ELSE <<>>)
                 \o KeptMergedWhole(Tail(merged_cells), rows, cols)

\* The merged ranges kept, in the order of the list (lines 58-62).
RECURSIVE KeptMerged(_, _, _)
KeptMerged(merged_cells, rows, cols) ==
    IF merged_cells = <<>> THEN <<>>
    ELSE LET m == Head(merged_cells)
         IN  (IF (m[1] \in rows \/ m[3] \in rows) /\ (m[2] \in cols \/ m[4] \in cols)
              THEN <<m>> ELSE <<>>)
                 \o KeptMerged(Tail(merged_cells), rows, cols)

\* A seeded slip: a kept row is copied whole, whatever its columns.
new_matrix_rows_only(sheet, rows, cols) ==
    [r \in 1..sheet.max_row |->
        IF r \in rows
        THEN [c \in 1..sheet.max_col |-> get_cell(sheet, r, c)]
        ELSE [c \in 1..sheet.max_col |-> NoCell]]

\* Lines 44-55.
new_matrix(sheet, rows, cols) ==
    [r \in 1..sheet.max_row |->
        IF r \in rows
        THEN [c \in 1..sheet.max_col |->
                 IF c \in cols THEN get_cell(sheet, r, c) ELSE NoCell]
        ELSE [c \in 1..sheet.max_col |-> NoCell]]

\* StructuralAnchorStrategy.apply, given the retained rows and columns.
apply_with(sheet, rows, cols) ==
    SheetMatrix(new_matrix(sheet, rows, cols),
                KeptMerged(sheet.merged_cells, rows, cols),
                sheet.sheet_name, sheet.max_row, sheet.max_col)

(***************************************************************************)
(* Specification of the address helpers: format an address, parse it back. *)
(***************************************************************************)
IdleList == addresses = None /\ ranges = None /\ found = None /\ rectangles = None
IdleAddr == row = 0 /\ col = 0 /\ address = None /\ parsed = None
IdleAnchor ==
    /\ anchor_proximity = 0
    /\ rows_to_keep = {}
    /\ cols_to_keep = {}
    /\ compressed_matrix = None
IdleSheet == sheet_matrix = None
IdleEncoder ==
    /\ max_tokens = 0
    /\ use_inverted_index = TRUE
    /\ use_format_aggregation = TRUE
    /\ token_count = 0
    /\ encoded = None
    /\ error = None
    /\ chunk_calls = 0
IdleBest ==
    /\ original_tokens = 0
    /\ method_idx = 0
    /\ best_ratio = None
    /\ best_method = None
    /\ best_encoded = [kind |-> "None"]
    /\ evaluated = <<>>
    /\ output_file = [kind |-> "None"]
    /\ result = [method |-> "None"]
    /\ original_encoded = [kind |-> "None"]
    /\ filename_prefix = None
    /\ module_globals = {}

NoChunking == [header_rows |-> {}, rows_per_chunk |-> 0, num_chunks |-> 0]

IdleRoutine ==
    /\ anchors = {} /\ max_index = 0 /\ expanded = {}
    /\ anchor_rows = {} /\ anchor_cols = {}
    /\ chunking = NoChunking
    /\ compressed_index = <<>>
    /\ strategies = <<>>

IdleGrid == got_cell = [returned |-> None, raised |-> None] /\ format_section = <<>>

IdleMeta ==
    /\ metadata_file = [state |-> "absent", keys |-> {}]
    /\ index = <<>>
    /\ worker_pc = <<>>
    /\ logged = {}
    /\ surfaced = {}

InitAddress ==
    /\ pc = "address"
    /\ row \in 1..MaxAddrRow
    /\ col \in 1..MaxAddrCol
    /\ address = None
    /\ parsed = None
    /\ IdleList
    /\ IdleSheet
    /\ IdleAnchor
    /\ IdleEncoder
    /\ IdleBest
    /\ IdleMeta
    /\ IdleGrid
    /\ IdleRoutine

FormatAddress ==
    /\ pc = "address"
    /\ address' = get_cell_address(row, col)
    /\ pc' = "formatted"
    /\ UNCHANGED <<row, col, parsed, listVars, sheet_matrix, anchorVars, encoderVars, bestVars, metaVars, gridVars, routineVars>>

ParseAddress ==
    /\ pc = "formatted"
    /\ parsed' = parse_cell_address(address)
    /\ pc' = "parsed"
    /\ UNCHANGED <<row, col, address, listVars, sheet_matrix, anchorVars, encoderVars, bestVars, metaVars, gridVars, routineVars>>

NextAddress == FormatAddress \/ ParseAddress

SpecAddress == InitAddress /\ [][NextAddress]_vars

\* C5: for every row >= 1 and column >= 1, parsing the formatted address
\* gives back exactly (row, col), and the column letters convert back to the
\* column index.
AddressRoundTrip ==
    pc = "parsed" =>
        /\ parsed = <<row, col>>
        /\ get_column_index(get_column_letter(col)) = col

\* C5 witness: a round trip has run on a column at a letter-count boundary
\* (Z/AA or ZZ/AAA) with a row of two digits.
AddressRoundTripWitness ==
    /\ pc = "parsed"
    /\ col \in {26, 27, 702, 703}
    /\ row >= 10
    /\ parsed = <<row, col>>

(***************************************************************************)
(* Specification of the range routines: a caller collects the addresses of *)
(* a set of cells row by row (encoder.py lines 199-214, 321-339) and hands *)
(* the list to _compress_address_ranges or to _find_rectangles.            *)
(***************************************************************************)

\* The addresses of the cells of S in row-major order, from (r, c) on: the
\* caller's loops over the rows and the columns.
RECURSIVE RowMajorAddresses(_, _, _, _, _, _)
RowMajorAddresses(S, r, c, last_row, first_col, last_col) ==
    IF r > last_row THEN <<>>
    ELSE IF c > last_col
    THEN RowMajorAddresses(S, r + 1, first_col, last_row, first_col, last_col)
    ELSE (IF <<r, c>> \in S THEN <<get_cell_address(r, c)>> ELSE <<>>)
             \o RowMajorAddresses(S, r, c + 1, last_row, first_col, last_col)

LastRangeRow == RangeRowLo + RangeRowCount - 1
RangeRows == RangeRowLo..LastRangeRow
RangeCells == RangeRows \X RangeCols
FirstRangeCol == CHOOSE c \in RangeCols : \A d \in RangeCols : d >= c
LastRangeCol == CHOOSE c \in RangeCols : \A d \in RangeCols : d <= c

InitRanges ==
    /\ pc = "addresses"
    /\ \E S \in SUBSET RangeCells :
           addresses = RowMajorAddresses(S, RangeRowLo, FirstRangeCol,
                                         LastRangeRow, FirstRangeCol, LastRangeCol)
    /\ ranges = None
    /\ found = None
    /\ rectangles = None
    /\ IdleAddr
    /\ IdleSheet
    /\ IdleAnchor
    /\ IdleEncoder
    /\ IdleBest
    /\ IdleMeta
    /\ IdleGrid
    /\ IdleRoutine

CompressAddressRanges ==
    /\ pc = "addresses"
    /\ ranges' = compress_address_ranges(addresses)
    /\ pc' = "compressed"
    /\ UNCHANGED <<addresses, found, rectangles, addrVars, sheet_matrix, anchorVars, encoderVars, bestVars, metaVars, gridVars, routineVars>>

FindRectangles ==
    /\ pc = "addresses"
    /\ LET res == IF Len(addresses) < 4 THEN [found |-> <<>>, remaining |-> {}]
                  ELSE find_rectangles_corners(addresses)
       IN  /\ found' = res.found
           /\ rectangles' = WithLeftovers(res)
    /\ pc' = "rectangles"
    /\ UNCHANGED <<addresses, ranges, addrVars, sheet_matrix, anchorVars, encoderVars, bestVars, metaVars, gridVars, routineVars>>

NextRanges == CompressAddressRanges \/ FindRectangles

SpecRanges == InitRanges /\ [][NextRanges]_vars

\* The cells of the address list handed in.
InputCells ==
    { <<ParseCoordinate(addresses[i])[1], ParseCoordinate(addresses[i])[2]>> :
          i \in 1..Len(addresses) }

\* The input lies in one row and occupies consecutive columns.
OneRowRun(S) ==
    /\ S # {}
    /\ \A a, b \in S : a[1] = b[1]
    /\ \A a, b \in S : \A c \in (a[2] + 1)..(b[2] - 1) : <<a[1], c>> \in S

LowestCol(S) == CHOOSE c \in { x[2] : x \in S } : \A x \in S : c <= x[2]
HighestCol(S) == CHOOSE c \in { x[2] : x \in S } : \A x \in S : c >= x[2]
RowOf(S) == (CHOOSE x \in S : TRUE)[1]

\* C1: a set of 3 or more addresses of one row in consecutive columns is
\* compressed to exactly one range first:last (lowest to highest column); a
\* set of fewer than 3 is listed address by address, unmerged.
RangeCompressionOfRun ==
    (pc = "compressed" /\ OneRowRun(InputCells)) =>
        IF Cardinality(InputCells) >= 3
        THEN ranges = << get_cell_address(RowOf(InputCells), LowestCol(InputCells))
                           \o <<Colon>> \o
                         get_cell_address(RowOf(InputCells), HighestCol(InputCells)) >>
        ELSE /\ Len(ranges) = Len(addresses)
             /\ { ranges[i] : i \in 1..Len(ranges) }
                    = { addresses[i] : i \in 1..Len(addresses) }

\* The cells an output entry stands for: the block between the two corners
\* of "first:last", or the one cell of a single address.
ColonAt(e) == CHOOSE i \in 1..Len(e) : e[i] = Colon
HasColon(e) == \E i \in 1..Len(e) : e[i] = Colon
FirstOf(e) == ParseCoordinate(SubSeq(e, 1, ColonAt(e) - 1))
LastOf(e) == ParseCoordinate(SubSeq(e, ColonAt(e) + 1, Len(e)))
EntryCells(e) ==
    IF HasColon(e)
    THEN (FirstOf(e)[1]..LastOf(e)[1]) \X (FirstOf(e)[2]..LastOf(e)[2])
    ELSE { <<ParseCoordinate(e)[1], ParseCoordinate(e)[2]>> }

EntryWidth(e) == LastOf(e)[2] - FirstOf(e)[2] + 1
EntryHeight(e) == LastOf(e)[1] - FirstOf(e)[1] + 1

\* C2: every rectangle emitted is at least 2 wide and 2 high and holds only
\* addresses of the input, and no address is covered by two entries of the
\* result (two rectangles, or a rectangle and a leftover range or address).
RectangleValidity ==
    pc = "rectangles" =>
        /\ \A i \in 1..Len(found) :
               /\ found[i] = rectangles[i]
               /\ EntryWidth(found[i]) >= 2
               /\ EntryHeight(found[i]) >= 2
               /\ EntryCells(found[i]) \subseteq InputCells
        /\ \A i, j \in 1..Len(rectangles) :
               (i # j /\ (i <= Len(found) \/ j <= Len(found))) =>
                   EntryCells(rectangles[i]) \cap EntryCells(rectangles[j]) = {}

\* C2 witness: two rectangles were emitted and a leftover entry follows them.
RectangleValidityWitness ==
    /\ pc = "rectangles"
    /\ Len(found) >= 2
    /\ Len(rectangles) > Len(found)

(***************************************************************************)
(* Sheets the operations are run on.  Each row follows one of a few        *)
(* patterns: "blank" holds no cell; "number" holds the integer 1 in column *)
(* 1 and valueless cells (as the parser makes of blank cells) elsewhere;   *)
(* "header" holds a bold text in every column.                             *)
(***************************************************************************)
PlainFormat == CellFormat({}, None, None, {})
BoldFormat == CellFormat({"BOLD"}, None, None, {})
NumberCell == Cell([t |-> "int", s |-> "1"], "INT_NUM", PlainFormat)
EmptyCell == Cell(NoneValue, "EMPTY", PlainFormat)
HeaderCell == Cell([t |-> "str", s |-> "x"], "TEXT", BoldFormat)

RowPatterns == {"blank", "number", "header"}

PatternRow(pattern, max_col) ==
    [c \in 1..max_col |->
        CASE pattern = "blank" -> NoCell
          [] pattern = "number" -> IF c = 1 THEN NumberCell ELSE EmptyCell
          [] OTHER -> HeaderCell]

\* The merged-range lists tried: none, or a list of ranges over rows 2 and 3
\* and all the columns, over column 2 and all the rows, and over rows 2 and 3
\* of column 2 (the last two on sheets of two columns or more).
MergedLists(max_row, max_col) ==
    {<<>>} \cup
    { << <<r, 1, r + 1, max_col>> >>
          \o (IF max_col >= 2
              THEN << <<1, 2, max_row, 2>>, <<r, 2, r + 1, 2>> >> ELSE <<>>) :
        r \in {2} \cap 1..(max_row - 1) }

SheetOf(n, m, pat, merged) ==
    SheetMatrix([r \in 1..n |-> PatternRow(pat[r], m)], merged, "Sheet1", n, m)

(***************************************************************************)
(* Specification of anchor extraction: StructuralAnchorStrategy.apply on a *)
(* sheet, with a proximity.                                                *)
(***************************************************************************)
InitAnchor ==
    /\ pc = "sheet"
    /\ \E n \in 1..MaxRow, m \in 1..MaxCol :
           \E pat \in [1..n -> RowPatterns], merged \in MergedLists(n, m) :
               sheet_matrix = SheetOf(n, m, pat, merged)
    /\ anchor_proximity \in 0..MaxProximity
    /\ rows_to_keep = {}
    /\ cols_to_keep = {}
    /\ compressed_matrix = None
    /\ IdleAddr
    /\ IdleList
    /\ IdleEncoder
    /\ IdleBest
    /\ IdleMeta
    /\ IdleGrid
    /\ IdleRoutine

Apply ==
    /\ pc = "sheet"
    /\ LET rows == expand_anchors(find_anchor_rows(sheet_matrix),
                                  sheet_matrix.max_row, anchor_proximity)
           cols == expand_anchors(find_anchor_cols(sheet_matrix),
                                  sheet_matrix.max_col, anchor_proximity)
       IN  /\ rows_to_keep' = rows
           /\ cols_to_keep' = cols
           /\ compressed_matrix' = apply_with(sheet_matrix, rows, cols)
    /\ pc' = "applied"
    /\ UNCHANGED <<sheet_matrix, anchor_proximity, addrVars, listVars, encoderVars, bestVars, metaVars, gridVars, routineVars>>

NextAnchor == Apply

SpecAnchor == InitAnchor /\ [][NextAnchor]_vars

\* C4: whatever the cells and the proximity, the retained rows hold row 1
\* and the last row, and the retained columns hold column 1 and the last
\* column.
AnchorInclusion ==
    pc = "applied" =>
        /\ 1 \in rows_to_keep
        /\ sheet_matrix.max_row \in rows_to_keep
        /\ 1 \in cols_to_keep
        /\ sheet_matrix.max_col \in cols_to_keep

\* C4 witness: extraction with proximity 0 has run on a sheet whose first
\* and last rows are blank and whose last column holds no value, so that
\* only the forced anchors retain them.
AnchorInclusionWitness ==
    /\ pc = "applied"
    /\ anchor_proximity = 0
    /\ sheet_matrix.max_row >= 3
    /\ sheet_matrix.max_col >= 2
    /\ RowScore2(sheet_matrix, 1) = 0
    /\ RowScore2(sheet_matrix, sheet_matrix.max_row) = 0
    /\ ~ColScoreAtLeast(sheet_matrix, sheet_matrix.max_col, PrimaryThreshold2)
    /\ rows_to_keep # 1..sheet_matrix.max_row

\* What C6 says of the grid returned.
ApplyResultShape ==
    pc = "applied" =>
        /\ compressed_matrix.max_row = sheet_matrix.max_row
        /\ compressed_matrix.max_col = sheet_matrix.max_col
        /\ compressed_matrix.sheet_name = sheet_matrix.sheet_name
        /\ Len(compressed_matrix.matrix) = sheet_matrix.max_row
        /\ \A r \in 1..sheet_matrix.max_row :
               /\ Len(compressed_matrix.matrix[r]) = sheet_matrix.max_col
               /\ \A c \in 1..sheet_matrix.max_col :
                      get_cell(compressed_matrix, r, c) =
                          IF r \in rows_to_keep /\ c \in cols_to_keep
                          THEN get_cell(sheet_matrix, r, c)
                          ELSE NoCell

\* C6: apply returns a grid of the same dimensions and name whose cell at
\* (row, col) is the input's cell when both the row and the column are
\* retained and is absent otherwise, and it leaves the input grid (matrix
\* and merged ranges) as it was.
ApplyCopiesRetained ==
    /\ []ApplyResultShape
    /\ [][sheet_matrix' = sheet_matrix]_vars

\* C6 witness: extraction has dropped a cell of a retained row because its
\* column is not retained, and has kept another cell of that row.
ApplyCopiesRetainedWitness ==
    /\ pc = "applied"
    /\ \E r \in rows_to_keep :
           /\ \E c \in 1..sheet_matrix.max_col :
                  /\ c \notin cols_to_keep
                  /\ get_cell(sheet_matrix, r, c) # NoCell
                  /\ get_cell(compressed_matrix, r, c) = NoCell
           /\ \E c \in cols_to_keep :
                  /\ Populated(get_cell(compressed_matrix, r, c))
    /\ \E r \in 1..sheet_matrix.max_row :
           r \notin rows_to_keep /\ get_cell(sheet_matrix, r, 1) # NoCell


(***************************************************************************)
(* Core/encoder.py: encode_sheet and the chunked encoding.                 *)
(*                                                                         *)
(* A section of the text is held as the name of the generator that wrote   *)
(* it together with the grid it was given.  estimate_tokens is tiktoken's  *)
(* count of the text: it is an input of the step.                          *)
(***************************************************************************)
MinRowsPerChunk == 20
MaxRowsPerChunk == 200
TokensPerRow == 100
HeaderScanRows == 10

Min(a, b) == IF a < b THEN a ELSE b
Max(a, b) == IF a > b THEN a ELSE b
SetMax(S) == CHOOSE x \in S : \A y \in S : y <= x

\* "# Sheet: {sheet_name}\nDimensions: {max_row}x{max_col}"
generate_header(sheet) ==
    <<"# Sheet: ", sheet.sheet_name, "\nDimensions: ",
      IntToStr(sheet.max_row), "x", IntToStr(sheet.max_col)>>

text_generator(inverted) ==
    IF inverted THEN "_generate_inverted_index_text" ELSE "_generate_text_section"
format_generator(aggregation) ==
    IF aggregation THEN "_generate_aggregated_format_section"
    ELSE "_generate_format_section"

\* The text of lines 30-45.
direct_encoding(sheet, inverted, aggregation) ==
    [kind |-> "direct",
     header |-> generate_header(sheet),
     text_section |-> text_generator(inverted),
     format_section |-> format_generator(aggregation),
     sheet_matrix |-> sheet]

detect_header_rows(sheet) ==
    LET first == IF sheet.max_row > 0 THEN {1} ELSE {}
        cells(r) == { get_cell(sheet, r, c) : c \in PopulatedInRow(sheet, r) }
        has_bold(r) ==
            \E x \in cells(r) : x.format # NoFormat /\ "BOLD" \in x.format.formats
        has_borders(r) == \E x \in cells(r) : HasBorders(x)
        total_cells(r) == Cardinality(PopulatedInRow(sheet, r))
        text_cells(r) ==
            Cardinality({ c \in PopulatedInRow(sheet, r) :
                              get_cell(sheet, r, c).data_type = "TEXT" })
    IN  first \cup
        { r \in 1..Min(HeaderScanRows, sheet.max_row) :
              /\ has_bold(r) \/ has_borders(r)
              /\ total_cells(r) > 0
              /\ 2 * text_cells(r) >= total_cells(r) }

\* A seeded slip: a chunk holds its own rows only.
rows_to_include_body_only(header_indices, chunk_start, chunk_end) ==
    chunk_start..chunk_end

\* Line 88.
rows_to_include(header_indices, chunk_start, chunk_end) ==
    header_indices \cup (chunk_start..chunk_end)

create_sub_matrix(sheet, rows) ==
    SheetMatrix([r \in 1..sheet.max_row |->
                    IF r \in rows
                    THEN [c \in 1..sheet.max_col |-> get_cell(sheet, r, c)]
                    ELSE [c \in 1..sheet.max_col |-> NoCell]],
                sheet.merged_cells, sheet.sheet_name, sheet.max_row, sheet.max_col)

\* A seeded slip: the chunk size has no upper limit.
rows_per_chunk_no_ceiling(budget) ==
    Max(MinRowsPerChunk, budget \div TokensPerRow)

\* Line 68.
rows_per_chunk(budget) ==
    Min(Max(MinRowsPerChunk, budget \div TokensPerRow), MaxRowsPerChunk)

\* math.ceil(max_body_rows / rows_per_chunk), max_body_rows being >= 0.
num_chunks(sheet, budget) ==
    LET max_body_rows == sheet.max_row - Cardinality(detect_header_rows(sheet))
    IN  (max_body_rows + rows_per_chunk(budget) - 1) \div rows_per_chunk(budget)

start_row(sheet) ==
    LET header_indices == detect_header_rows(sheet)
    IN  IF header_indices # {} THEN Max(SetMax(header_indices) + 1, 1) ELSE 1

\* The loop of lines 79-105, from chunk_idx on.
RECURSIVE ChunkLoop(_, _, _, _, _)
ChunkLoop(sheet, budget, inverted, aggregation, chunk_idx) ==
    IF chunk_idx >= num_chunks(sheet, budget) THEN <<>>
    ELSE LET chunk_start == start_row(sheet) + chunk_idx * rows_per_chunk(budget)
             chunk_end == Min(chunk_start + rows_per_chunk(budget) - 1, sheet.max_row)
             rows == rows_to_include(detect_header_rows(sheet), chunk_start, chunk_end)
             chunk == [chunk_idx |-> chunk_idx + 1,
                       num_chunks |-> num_chunks(sheet, budget),
                       chunk_start |-> chunk_start,
                       chunk_end |-> chunk_end,
                       text_section |-> text_generator(inverted),
                       format_section |-> format_generator(aggregation),
                       chunk_matrix |-> create_sub_matrix(sheet, rows)]
         IN  (IF chunk_start > sheet.max_row THEN <<>> ELSE <<chunk>>)
                 \o ChunkLoop(sheet, budget, inverted, aggregation, chunk_idx + 1)

chunk_encode_sheet(sheet, header, budget, inverted, aggregation) ==
    [kind |-> "chunked",
     header |-> header,
     chunks |-> ChunkLoop(sheet, budget, inverted, aggregation, 0)]

\* A seeded slip: an estimate equal to the budget is chunked.
within_budget_strict(estimate, budget) == estimate < budget

\* A seeded slip: the budget is not looked at.
within_budget_always(estimate, budget) == TRUE

\* Line 49.
within_budget(estimate, budget) == estimate <= budget

\* encode_sheet, the estimate of the direct text given: the text returned
\* and the number of calls of _chunk_encode_sheet made.
encode_sheet(sheet, budget, inverted, aggregation, estimate) ==
    IF within_budget(estimate, budget)
    THEN [returned |-> direct_encoding(sheet, inverted, aggregation), chunked |-> 0]
    ELSE [returned |-> chunk_encode_sheet(sheet, generate_header(sheet), budget,
                                          inverted, aggregation),
          chunked |-> 1]

(***************************************************************************)
(* Specification of encoding: encode_sheet on a sheet of EncCols columns   *)
(* whose first rows follow the head patterns and whose other rows are      *)
(* "number" rows.  A "total" row holds a bold integer: it is formatted but *)
(* not mostly text.                                                        *)
(***************************************************************************)
TotalCell == Cell([t |-> "int", s |-> "1"], "INT_NUM", BoldFormat)

HeadPatterns == {"number", "header", "total"}

EncRow(pattern, max_col) ==
    IF pattern = "total"
    THEN [c \in 1..max_col |-> IF c = 1 THEN TotalCell ELSE EmptyCell]
    ELSE PatternRow(pattern, max_col)

EncSheet(n, head) ==
    SheetMatrix([r \in 1..n |-> EncRow(IF r \in DOMAIN head THEN head[r] ELSE "number",
                                       EncCols)],
                <<>>, "Sheet1", n, EncCols)

\* The budgets tried: they give 20, 25 and 200 rows per chunk.
Budgets == {1500, 2500, 25000}

InitEncode ==
    /\ pc = "encoder"
    /\ \E n \in 1..MaxEncRow :
           \E head \in [1..Min(n, HeadRows) -> HeadPatterns] :
               sheet_matrix = EncSheet(n, head)
    /\ max_tokens \in Budgets
    /\ \E b \in BOOLEAN : use_inverted_index = b /\ use_format_aggregation = b
    /\ token_count = 0
    /\ encoded = None
    /\ error = None
    /\ chunk_calls = 0
    /\ IdleAddr
    /\ IdleList
    /\ IdleAnchor
    /\ IdleBest
    /\ IdleMeta
    /\ IdleGrid
    /\ IdleRoutine

EncodeSheet ==
    /\ pc = "encoder"
    /\ \E estimate \in {max_tokens, max_tokens + 1} :
           LET call == encode_sheet(sheet_matrix, max_tokens, use_inverted_index,
                                    use_format_aggregation, estimate)
           IN  /\ token_count' = estimate
               /\ encoded' = call.returned
               /\ chunk_calls' = chunk_calls + call.chunked
    /\ pc' = "encoded"
    /\ UNCHANGED <<sheet_matrix, max_tokens, use_inverted_index, use_format_aggregation,
                   error, addrVars, listVars, anchorVars, bestVars, metaVars, gridVars, routineVars>>

NextEncode == EncodeSheet

SpecEncode == InitEncode /\ [][NextEncode]_vars

ChunkingIffOverBudget ==
    pc = "encoded" =>
        /\ token_count <= max_tokens =>
               /\ encoded = direct_encoding(sheet_matrix, use_inverted_index,
                                            use_format_aggregation)
               /\ chunk_calls = 0
        /\ token_count > max_tokens =>
               /\ encoded.kind = "chunked"
               /\ chunk_calls = 1

\* C8 witness: an estimate equal to max_tokens, returned directly.
ChunkingIffOverBudgetWitness ==
    /\ pc = "encoded"
    /\ token_count = max_tokens
    /\ encoded.kind = "direct"
    /\ chunk_calls = 0


(***************************************************************************)
(* Core/llm_query.py: MetadataIndex.                                       *)
(*                                                                         *)
(* The persisted file is absent, holds the JSON of an index (of which the  *)
(* sheet names are kept), or is "partial": opened for writing and not      *)
(* written to the end, which json.load does not read.                      *)
(***************************************************************************)
AbsentFile == [state |-> "absent", keys |-> {}]
PartialFile == [state |-> "partial", keys |-> {}]
JsonFile(idx) == [state |-> "json", keys |-> idx]

\* Lines 32-41: a file that does not load gives an empty index.
load_or_create_index(file) == IF file.state = "json" THEN file.keys ELSE {}

\* A seeded slip: the entry is taken back when the save fails.
index_after_failed_save_rolled_back(idx, sheet_name) == idx \ {sheet_name}

\* Lines 50-62: the index a failed save leaves in memory.
index_after_failed_save(idx, sheet_name) == idx

\* The except clause of _save_index (lines 61-62) logs the exception and
\* returns: the set of callers that see it raised out of update_index.
raised_to_caller(w) == {}

\* Lines 56-62 run alone: the file is written, or open() fails and the
\* file is as it was, or json.dump fails and leaves it partial.
SaveOutcomes(file, idx) ==
    { [file |-> JsonFile(idx), failed |-> FALSE],
      [file |-> file, failed |-> TRUE],
      [file |-> PartialFile, failed |-> TRUE] }

(***************************************************************************)
(* Core/compressor.py: compress_with_best_method.                          *)
(*                                                                         *)
(* The function reads of the sheet its name and its dimensions; the cells  *)
(* are read by SheetCompressor.compress and by encode_sheet, and what a    *)
(* call of these gives (an exception, or a text with its token estimate)   *)
(* is an input of the step.  A text is held as the configuration it was    *)
(* encoded under, its kind and its estimate.  A ratio is the pair of       *)
(* compressed_tokens and original_tokens, float('inf') the pair <<1, 0>>.  *)
(* The output directory is taken to be writable.  The name MetadataIndex   *)
(* of line 419 is looked up in the globals of Core.compressor when the     *)
(* call runs: compressor.py does not import it, so the call raises         *)
(* NameError there unless the importer has bound the name.                 *)
(***************************************************************************)
LargeSheetThreshold == 100000
VeryGoodNum == 3
VeryGoodDen == 10

NoText == [kind |-> "None"]
NoResult == [method |-> "None"]
Inf == <<1, 0>>

\* A seeded slip: a ratio equal to the best one replaces it.
RatioLessOrEqual(a, b) == a[1] * b[2] <= b[1] * a[2]

\* Line 499: ratio < best_ratio.
RatioLess(a, b) == a[1] * b[2] < b[1] * a[2]

\* A seeded slip: a product equal to the threshold takes the shortcut.
large_sheet_inclusive(sheet) ==
    sheet.max_row * sheet.max_col * 2 >= LargeSheetThreshold

\* Lines 427-428.
large_sheet(sheet) == sheet.max_row * sheet.max_col * 2 > LargeSheetThreshold

\* Line 508: best_encoded is None.
none_succeeded(best) == best = NoText

\* A seeded slip: the output file is opened before the check of line 508.
file_when_none_succeeded_opened(file) == [kind |-> "empty"]

\* Lines 508-517: the call raises before the output file is opened.
file_when_none_succeeded(file) == file

\* A seeded slip: the original encoding is made with both options off.
OriginalTextsPlain(budget, inverted, aggregation) ==
    { x \in [config : {"original"}, kind : {"direct", "chunked"},
             tokens : {MaxTokenValue, MaxOriginalTokens},
             use_structural_anchors : {FALSE},
             use_inverted_index : {FALSE},
             use_format_aggregation : {FALSE}] :
          x.kind = "direct" => x.tokens <= budget }

\* The encoder's settings when the original encoding is made (line 464):
\* those of SpreadsheetEncoder.__init__, no anchor extraction being applied.
OriginalTexts(budget, inverted, aggregation) ==
    { x \in [config : {"original"}, kind : {"direct", "chunked"},
             tokens : {MaxTokenValue, MaxOriginalTokens},
             use_structural_anchors : {FALSE},
             use_inverted_index : {inverted},
             use_format_aggregation : {aggregation}] :
          x.kind = "direct" => x.tokens <= budget }

methods ==
    << [name |-> "combined", use_structural_anchors |-> TRUE,
        use_inverted_index |-> TRUE, use_format_aggregation |-> TRUE],
       [name |-> "module3", use_structural_anchors |-> FALSE,
        use_inverted_index |-> FALSE, use_format_aggregation |-> TRUE],
       [name |-> "module2", use_structural_anchors |-> FALSE,
        use_inverted_index |-> TRUE, use_format_aggregation |-> FALSE],
       [name |-> "module1", use_structural_anchors |-> TRUE,
        use_inverted_index |-> FALSE, use_format_aggregation |-> FALSE] >>

\* What encode_sheet can return under a budget: a direct text within the
\* budget, or a chunked document, whose estimate is not checked.
Texts(config, budget) ==
    { [config |-> config, kind |-> "direct", tokens |-> t] :
          t \in 1..Min(MaxTokenValue, budget) }
      \cup (IF budget < MaxTokenValue
            THEN { [config |-> config, kind |-> "chunked", tokens |-> t] :
                       t \in 1..MaxTokenValue }
            ELSE {})

estimate_tokens(text) == text.tokens

\* Line 489.
compression_ratio(compressed_tokens, baseline_tokens) ==
    IF baseline_tokens > 0 THEN <<compressed_tokens, baseline_tokens>> ELSE <<0, 1>>

\* A seeded slip: no ratio ends the loop.
very_good_never(ratio) == FALSE

\* Line 492: ratio < 0.3.
very_good(ratio) == ratio[1] * VeryGoodDen < VeryGoodNum * ratio[2]

\* A seeded slip: an exception ends the loop.
after_exception_break(idx) == "finish"

\* Lines 504-506: the loop goes on with the next configuration, if any.
after_exception(idx) == IF idx < Len(methods) THEN "methods" ELSE "finish"

(***************************************************************************)
(* Specification of strategy selection: one call of                       *)
(* compress_with_best_method, a step for the large-sheet shortcut, for the *)
(* original encoding, for each configuration tried and for the return.     *)
(***************************************************************************)
BestSheets ==
    { [sheet_name |-> "Sheet1", max_row |-> d[1], max_col |-> d[2]] :
          d \in {<<MaxRow, MaxCol>>, <<LargeRows, LargeCols>>,
                 <<LargeRows + 1, LargeCols>>} }

InitBest ==
    /\ pc = "call"
    /\ sheet_matrix \in BestSheets
    /\ max_tokens \in {MaxTokenValue - 1, MaxTokenValue}
    /\ use_inverted_index = TRUE
    /\ use_format_aggregation = TRUE
    /\ token_count = 0
    /\ encoded = None
    /\ error = None
    /\ chunk_calls = 0
    /\ original_tokens = 0
    /\ method_idx = 0
    /\ best_ratio = None
    /\ best_method = None
    /\ best_encoded = NoText
    /\ evaluated = <<>>
    /\ output_file = NoText
    /\ result = NoResult
    /\ original_encoded = NoText
    /\ filename_prefix \in {None, "book"}
    /\ module_globals \in {{}, {"MetadataIndex"}}
    /\ metadata_file \in {AbsentFile, JsonFile({"other"})}
    /\ index = <<>>
    /\ worker_pc = <<>>
    /\ logged = {}
    /\ surfaced = {}
    /\ IdleAddr
    /\ IdleList
    /\ IdleAnchor
    /\ IdleGrid
    /\ IdleRoutine

\* Lines 413-424.
ExtractMetadata ==
    /\ pc = "call"
    /\ IF "MetadataIndex" \notin module_globals
       THEN /\ error' = "NameError"
            /\ pc' = "raised"
            /\ UNCHANGED metaVars
       ELSE /\ pc' = "start"
            /\ error' = error
            /\ worker_pc' = <<"done">>
            /\ surfaced' = surfaced
            /\ IF filename_prefix # None
               THEN \E save \in SaveOutcomes(metadata_file,
                                   load_or_create_index(metadata_file)
                                       \cup {filename_prefix}) :
                        /\ metadata_file' = save.file
                        /\ index' =
                               << IF save.failed
                                  THEN index_after_failed_save(
                                           load_or_create_index(metadata_file)
                                               \cup {filename_prefix},
                                           filename_prefix)
                                  ELSE load_or_create_index(metadata_file)
                                           \cup {filename_prefix} >>
                        /\ logged' = IF save.failed THEN {1} ELSE {}
               ELSE /\ index' = <<load_or_create_index(metadata_file)>>
                    /\ UNCHANGED <<metadata_file, logged>>
    /\ UNCHANGED <<sheet_matrix, max_tokens, use_inverted_index, use_format_aggregation,
                   token_count, encoded, chunk_calls, bestVars,
                   addrVars, listVars, anchorVars, gridVars, routineVars>>

\* Lines 427-453.
LargeSheet ==
    /\ pc = "start"
    /\ large_sheet(sheet_matrix)
    /\ use_inverted_index' = FALSE
    /\ use_format_aggregation' = TRUE
    /\ \/ /\ error' = "Exception"
          /\ pc' = "raised"
          /\ UNCHANGED <<output_file, result>>
       \/ \E text \in Texts("module3", max_tokens) :
              /\ output_file' = text
              /\ result' = [method |-> "module3", compression_ratio |-> <<1, 1>>,
                            tokens |-> estimate_tokens(text)]
              /\ pc' = "returned"
              /\ error' = error
    /\ UNCHANGED <<sheet_matrix, max_tokens, token_count, encoded, chunk_calls,
                   original_tokens, method_idx, best_ratio, best_method, best_encoded,
                   evaluated, original_encoded, filename_prefix, module_globals,
                   addrVars, listVars, anchorVars, metaVars, gridVars, routineVars>>

\* Lines 464-469.
OriginalEncoding ==
    /\ pc = "start"
    /\ ~large_sheet(sheet_matrix)
    /\ \/ /\ error' = "Exception"
          /\ pc' = "raised"
          /\ UNCHANGED <<original_tokens, method_idx, best_ratio, best_method,
                         best_encoded, original_encoded>>
       \/ /\ original_encoded' \in OriginalTexts(max_tokens, use_inverted_index,
                                                  use_format_aggregation)
          /\ original_tokens' = estimate_tokens(original_encoded')
          /\ best_ratio' = Inf
          /\ best_method' = None
          /\ best_encoded' = NoText
          /\ method_idx' = 1
          /\ pc' = "methods"
          /\ error' = error
    /\ UNCHANGED <<sheet_matrix, max_tokens, use_inverted_index, use_format_aggregation,
                   token_count, encoded, chunk_calls, evaluated, output_file, result,
                   filename_prefix, module_globals,
                   addrVars, listVars, anchorVars, metaVars, gridVars, routineVars>>

\* One turn of the loop of lines 472-506.
TryMethod ==
    /\ pc = "methods"
    /\ method_idx <= Len(methods)
    /\ LET params == methods[method_idx]
       IN  /\ use_inverted_index' = params.use_inverted_index
           /\ use_format_aggregation' = params.use_format_aggregation
           /\ \/ /\ evaluated' = Append(evaluated,
                                        [method |-> params.name, outcome |-> "raised",
                                         encoded |-> NoText])
                 /\ pc' = after_exception(method_idx)
                 /\ UNCHANGED <<best_ratio, best_method, best_encoded>>
              \/ \E text \in Texts(params.name, max_tokens) :
                     LET ratio == compression_ratio(estimate_tokens(text),
                                                    original_tokens)
                     IN  /\ evaluated' = Append(evaluated,
                                                [method |-> params.name,
                                                 outcome |-> "ok", encoded |-> text])
                         /\ IF very_good(ratio) \/ RatioLess(ratio, best_ratio)
                            THEN /\ best_ratio' = ratio
                                 /\ best_method' = params.name
                                 /\ best_encoded' = text
                            ELSE UNCHANGED <<best_ratio, best_method, best_encoded>>
                         /\ pc' = IF very_good(ratio) \/ method_idx = Len(methods)
                                  THEN "finish" ELSE "methods"
    /\ method_idx' = method_idx + 1
    /\ UNCHANGED <<sheet_matrix, max_tokens, token_count, encoded, error, chunk_calls,
                   original_tokens, output_file, result, original_encoded,
                   filename_prefix, module_globals,
                   addrVars, listVars, anchorVars, metaVars, gridVars, routineVars>>

\* Lines 508-529.
Return ==
    /\ pc = "finish"
    /\ IF none_succeeded(best_encoded)
       THEN /\ error' = "ValueError"
            /\ pc' = "raised"
            /\ output_file' = file_when_none_succeeded(output_file)
            /\ result' = result
       ELSE /\ output_file' = best_encoded
            /\ result' = [method |-> best_method, compression_ratio |-> best_ratio,
                          tokens |-> estimate_tokens(best_encoded)]
            /\ pc' = "returned"
            /\ error' = error
    /\ UNCHANGED <<sheet_matrix, max_tokens, use_inverted_index, use_format_aggregation,
                   token_count, encoded, chunk_calls, original_tokens, method_idx,
                   best_ratio, best_method, best_encoded, evaluated, original_encoded,
                   filename_prefix, module_globals,
                   addrVars, listVars, anchorVars, metaVars, gridVars, routineVars>>

NextBest == ExtractMetadata \/ LargeSheet \/ OriginalEncoding \/ TryMethod \/ Return

SpecBest == InitBest /\ [][NextBest]_vars

Succeeded(a) == a.outcome = "ok"
BelowThreeTenths(a) ==
    Succeeded(a) /\ 10 * a.encoded.tokens < 3 * original_tokens
LoopLeft == pc = "finish" \/ (pc \in {"returned", "raised"} /\ method_idx > 0)

\* What C9 says of a state.
StrategyIsolationState ==
    /\ Len(evaluated) <= 4
    /\ \A i \in 1..Len(evaluated) :
           evaluated[i].method = <<"combined", "module3", "module2", "module1">>[i]
    /\ LoopLeft =>
           \/ Len(evaluated) = 4
           \/ BelowThreeTenths(evaluated[Len(evaluated)])
    /\ (LoopLeft /\ pc # "finish" /\ \E i \in 1..Len(evaluated) : Succeeded(evaluated[i])) =>
           /\ pc = "returned"
           /\ error = None
           /\ \E i \in 1..Len(evaluated) :
                  /\ Succeeded(evaluated[i])
                  /\ result.method = evaluated[i].method
                  /\ output_file = evaluated[i].encoded

\* What C9 says of a step in which a configuration raises.
StrategyIsolationStep ==
    (Len(evaluated') > Len(evaluated) /\ ~Succeeded(evaluated'[Len(evaluated')])) =>
        /\ best_ratio' = best_ratio
        /\ best_method' = best_method
        /\ best_encoded' = best_encoded
        /\ error' = None
        /\ pc' \in {"methods", "finish"}

SucceededIndices == { i \in 1..Len(evaluated) : Succeeded(evaluated[i]) }
NoneBelowThreeTenths == \A i \in 1..Len(evaluated) : ~BelowThreeTenths(evaluated[i])
LowestTokens(i) ==
    \A j \in SucceededIndices : evaluated[i].encoded.tokens <= evaluated[j].encoded.tokens

OverBudget(a) == Succeeded(a) /\ a.encoded.tokens > max_tokens

LargeProduct == sheet_matrix.max_row * sheet_matrix.max_col * 2

\* What C15 says of the step taken once the encoder is made.
LargeSheetShortcutStep ==
    pc = "start" =>
        IF LargeProduct > 100000
        THEN /\ use_inverted_index' = FALSE
             /\ use_format_aggregation' = TRUE
             /\ pc' \in {"returned", "raised"}
             /\ evaluated' = <<>>
             /\ original_encoded' = NoText
             /\ pc' = "returned" =>
                    /\ result'.method = "module3"
                    /\ result'.compression_ratio = <<1, 1>>
                    /\ output_file'.config = "module3"
                    /\ result'.tokens = output_file'.tokens
        ELSE /\ pc' \in {"methods", "raised"}
             /\ use_inverted_index' = use_inverted_index
             /\ use_format_aggregation' = use_format_aggregation
             /\ result' = NoResult
             /\ pc' = "methods" => original_encoded'.config = "original"

Workers == 1..NumWorkers

InitMeta ==
    /\ pc = "meta"
    /\ metadata_file \in {AbsentFile, JsonFile({}), JsonFile({0}), PartialFile}
    /\ index = [w \in Workers |-> {}]
    /\ worker_pc = [w \in Workers |-> "new"]
    /\ logged = {}
    /\ surfaced = {}
    /\ IdleSheet
    /\ IdleAddr
    /\ IdleList
    /\ IdleAnchor
    /\ IdleEncoder
    /\ IdleBest
    /\ IdleGrid
    /\ IdleRoutine

\* MetadataIndex.__init__ (lines 22-30).
Construct(w) ==
    /\ worker_pc[w] = "new"
    /\ index' = [index EXCEPT ![w] = load_or_create_index(metadata_file)]
    /\ worker_pc' = [worker_pc EXCEPT ![w] = "constructed"]
    /\ UNCHANGED <<metadata_file, logged, surfaced>>

\* update_index up to the open() of _save_index (lines 50-59): the entry is
\* set in memory, then the file is truncated, or open() fails and the
\* failure is logged.
UpdateIndex(w) ==
    /\ worker_pc[w] = "constructed"
    /\ \/ /\ index' = [index EXCEPT ![w] = index[w] \cup {w}]
          /\ metadata_file' = PartialFile
          /\ worker_pc' = [worker_pc EXCEPT ![w] = "opened"]
          /\ UNCHANGED <<logged, surfaced>>
       \/ /\ index' = [index EXCEPT ![w] = index_after_failed_save(index[w] \cup {w}, w)]
          /\ logged' = logged \cup {w}
          /\ surfaced' = surfaced \cup raised_to_caller(w)
          /\ worker_pc' = [worker_pc EXCEPT ![w] = "done"]
          /\ UNCHANGED metadata_file

\* json.dump and the close of the file (lines 59-62): the index is written;
\* or, another worker having the file open for writing as well, the two
\* texts mix; or json.dump fails and the failure is logged.
Dump(w) ==
    /\ worker_pc[w] = "opened"
    /\ worker_pc' = [worker_pc EXCEPT ![w] = "done"]
    /\ \/ /\ metadata_file' = JsonFile(index[w])
          /\ UNCHANGED <<index, logged, surfaced>>
       \/ /\ \E v \in Workers \ {w} : worker_pc[v] = "opened"
          /\ metadata_file' = PartialFile
          /\ UNCHANGED <<index, logged, surfaced>>
       \/ /\ metadata_file' = PartialFile
          /\ index' = [index EXCEPT ![w] = index_after_failed_save(index[w], w)]
          /\ logged' = logged \cup {w}
          /\ surfaced' = surfaced \cup raised_to_caller(w)

NextMeta ==
    /\ \E w \in Workers : Construct(w) \/ UpdateIndex(w) \/ Dump(w)
    /\ UNCHANGED <<pc, sheet_matrix, addrVars, listVars, anchorVars, encoderVars,
                   bestVars, gridVars, routineVars>>

SpecMeta == InitMeta /\ [][NextMeta]_vars

AllDone == \A w \in Workers : worker_pc[w] = "done"

\* C16: when the workers have all made their update, no save having
\* failed, the persisted store holds the entry of every one of them: no
\* interleaving of their read-modify-write-save sequences loses an update.
StoreHoldsEveryUpdate ==
    (AllDone /\ logged = {}) =>
        /\ metadata_file.state = "json"
        /\ Workers \subseteq metadata_file.keys


FailedSaves == {w \in Workers : worker_pc[w] = "done" /\ w \in logged}

\* C19 as stated: after a failed save the in-memory index of the worker
\* keeps the updated entry and the failure has been raised to the caller of
\* update_index.
SaveFailureSurfaced ==
    \A w \in FailedSaves : w \in index[w] /\ w \in surfaced

\* C19, amended: after a failed save the in-memory index of the worker keeps
\* the updated entry, and the failure is logged only: update_index returns
\* normally, nothing is raised to its caller.
SaveFailureLoggedOnly ==
    \A w \in FailedSaves : w \in index[w] /\ w \notin surfaced

SaveFailureLoggedOnlyWitness ==
    \E w \in FailedSaves :
        /\ w \in index[w]
        /\ w \notin metadata_file.keys
        /\ AllDone


(***************************************************************************)
(* Specification of the grid accessor: SheetMatrix.get_cell on a sheet,    *)
(* with coordinates inside and outside its bounds.                         *)
(***************************************************************************)
InitGrid ==
    /\ pc = "grid"
    /\ \E n \in 1..GridRows, m \in 1..GridCols :
           \E pat \in [1..n -> RowPatterns] :
               sheet_matrix = SheetOf(n, m, pat, <<>>)
    /\ got_cell = [returned |-> NoCell, raised |-> None]
    /\ format_section = <<>>
    /\ IdleRoutine
    /\ IdleAddr
    /\ IdleList
    /\ IdleAnchor
    /\ IdleEncoder
    /\ IdleBest
    /\ IdleMeta

GetCell ==
    /\ pc = "grid"
    /\ \E r \in (-1)..(sheet_matrix.max_row + 1), c \in (-1)..(sheet_matrix.max_col + 1) :
           /\ row' = r
           /\ col' = c
           /\ got_cell' = get_cell_call(sheet_matrix, r, c)
    /\ pc' = "got"
    /\ UNCHANGED <<routineVars, address, parsed, format_section, sheet_matrix, listVars, anchorVars,
                   encoderVars, bestVars, metaVars>>

NextGrid == GetCell

SpecGrid == InitGrid /\ [][NextGrid]_vars

\* C17 as stated: get_cell returns the stored cell or absent for every
\* in-bounds coordinate, and signals an error for every out-of-bounds one.
GetCellSignalsOutOfBounds ==
    pc = "got" =>
        IF InBounds(sheet_matrix, row, col)
        THEN got_cell = [returned |-> sheet_matrix.matrix[row][col], raised |-> None]
        ELSE got_cell.raised # None

\* C17, amended: get_cell returns the stored cell or absent for every
\* in-bounds coordinate, and for every out-of-bounds coordinate it returns
\* absent as well, signalling no error.
GetCellAbsentOutOfBounds ==
    pc = "got" =>
        IF InBounds(sheet_matrix, row, col)
        THEN got_cell = [returned |-> sheet_matrix.matrix[row][col], raised |-> None]
        ELSE got_cell = [returned |-> NoCell, raised |-> None]

GetCellAbsentOutOfBoundsWitness ==
    /\ pc = "got"
    /\ row = sheet_matrix.max_row + 1
    /\ col = 1
    /\ sheet_matrix.matrix[sheet_matrix.max_row][1] # NoCell
    /\ got_cell.returned = NoCell


(***************************************************************************)
(* Core/encoder.py: _generate_aggregated_format_section.                   *)
(*                                                                         *)
(* The section is the dict dumped at line 370: a function from the keys    *)
(* "FMT:<format>" and "NFS:<number format>" to their entry lists.  A float  *)
(* value carries what the code asks of it: is_integer() and the number of  *)
(* digits str(value) has after the point.                                  *)
(***************************************************************************)
NumericTypes == {"INT_NUM", "FLOAT_NUM", "PERCENTAGE", "CURRENCY"}
RectangleGroupSize == 5

RECURSIVE Zeros(_)
Zeros(n) == IF n = 0 THEN "" ELSE "0" \o Zeros(n - 1)

\* helpers.detect_number_format_string, for None, bool, int and float values
\* and for strings that match none of its patterns.
detect_number_format_string(value) ==
    CASE value.t = "NoneType" -> None
      [] value.t = "bool" -> None
      [] value.t = "int" -> "0"
      [] value.t = "float" ->
             IF value.is_integer THEN "0" ELSE "0." \o Zeros(value.decimal_places)
      [] OTHER -> None

\* fmt.name.lower() for the format types of the sheets.
LowerName(name) ==
    CASE name = "BOLD" -> "bold"
      [] name = "ITALIC" -> "italic"
      [] name = "BORDERED" -> "bordered"

RECURSIVE JoinWith(_, _)
JoinWith(sep, parts) ==
    IF parts = <<>> THEN ""
    ELSE IF Len(parts) = 1 THEN parts[1]
    ELSE parts[1] \o sep \o JoinWith(sep, Tail(parts))

\* CellFormat.__str__ (parser.py, lines 21-32).
format_str(format) ==
    LET names == SetToSeq(format.formats)
        borders == SetToSeq(format.borders)
    IN  JoinWith(" ",
            [i \in 1..Len(names) |-> LowerName(names[i])]
            \o (IF Truthy(format.bg_color) THEN <<"bg:" \o format.bg_color>> ELSE <<>>)
            \o (IF Truthy(format.font_color) THEN <<"fg:" \o format.font_color>> ELSE <<>>)
            \o (IF format.borders # {}
                THEN <<"borders:" \o JoinWith(",", borders)>> ELSE <<>>))

\* Lines 328-333: the key of the cell in data_type_groups, or None.
data_type_key(cell) ==
    IF cell.data_type \in NumericTypes
       /\ Truthy(detect_number_format_string(cell.value))
    THEN "NFS:" \o detect_number_format_string(cell.value)
    ELSE None

\* Lines 336-339 and 355: the key under which the cell's format group is
\* emitted, or None.
format_key(cell) ==
    IF cell.format # NoFormat /\ format_str(cell.format) # ""
    THEN "FMT:" \o format_str(cell.format)
    ELSE None

\* Lines 321-322: the coordinates in the order of the two loops.
RowMajor(sheet) ==
    [k \in 1..(sheet.max_row * sheet.max_col) |->
        <<((k - 1) \div sheet.max_col) + 1, ((k - 1) % sheet.max_col) + 1>>]

\* Lines 321-339: the addresses appended to the group of a key, in order.
group_addresses(sheet, key) ==
    LET InGroup(rc) ==
            LET cell == get_cell(sheet, rc[1], rc[2])
            IN  Populated(cell) /\ (data_type_key(cell) = key \/ format_key(cell) = key)
        members == SelectSeq(RowMajor(sheet), InGroup)
    IN  <<>> \o [i \in 1..Len(members) |->
                    get_cell_address(members[i][1], members[i][2])]

cell_keys(cell) ==
    IF Populated(cell) THEN {data_type_key(cell), format_key(cell)} \ {None} ELSE {}

\* The keys of the two dicts after the loops of lines 321-339.
group_keys(sheet) ==
    UNION { cell_keys(get_cell(sheet, rc[1], rc[2])) :
                rc \in (1..sheet.max_row) \X (1..sheet.max_col) }

\* A seeded slip: rectangle detection is never tried.
aggregate_group_ranges_only(addrs) == compress_address_ranges(addrs)

\* Lines 345-353 and 359-367: the entries of one group.
aggregate_group(addrs) ==
    IF Len(addrs) > RectangleGroupSize /\ find_rectangles(addrs) # <<>>
    THEN find_rectangles(addrs)
    ELSE compress_address_ranges(addrs)

generate_aggregated_format_section(sheet) ==
    [key \in group_keys(sheet) |-> aggregate_group(group_addresses(sheet, key))]

(***************************************************************************)
(* Specification of format aggregation: the section generated for a sheet  *)
(* that holds a block of cells of one kind among cells of another kind.    *)
(* The block is BlockRows x BlockCols at most, or two columns wide and as  *)
(* high as, or one row higher than, the height the rectangle search stops  *)
(* at.                                                                     *)
(***************************************************************************)
FloatCell ==
    Cell([t |-> "float", s |-> "1.5", is_integer |-> FALSE, decimal_places |-> 1],
         "FLOAT_NUM", PlainFormat)

InnerCells == {NumberCell, FloatCell, HeaderCell, TotalCell}
OuterCells == {NoCell, EmptyCell, NumberCell, HeaderCell}

BlockSheet(r0, c0, h, w, inner, outer) ==
    SheetMatrix([r \in 1..(r0 + h) |-> [c \in 1..(c0 + w) |->
                    IF r >= r0 /\ r < r0 + h /\ c >= c0 /\ c < c0 + w
                    THEN inner ELSE outer]],
                <<>>, "Sheet1", r0 + h, c0 + w)

\* Integers in columns 1..w1 of rows 1..h, and in columns 1..w2 of the row
\* below them.
StepSheet(h, w1, w2) ==
    SheetMatrix([r \in 1..(h + 1) |-> [c \in 1..BlockCols |->
                    IF (r <= h /\ c <= w1) \/ (r = h + 1 /\ c <= w2)
                    THEN NumberCell ELSE NoCell]],
                <<>>, "Sheet1", h + 1, BlockCols)

FormatSheets ==
    { BlockSheet(r0, c0, h, w, kinds[1], kinds[2]) :
          r0 \in 1..MaxOffset, c0 \in 1..MaxOffset, h \in 1..BlockRows,
          w \in 1..BlockCols,
          kinds \in { k \in InnerCells \X OuterCells : k[1] # k[2] } }
    \cup { BlockSheet(1, 1, h, 2, inner, NoCell) :
               h \in {HeightLimit, HeightLimit + 1}, inner \in InnerCells }
    \cup { StepSheet(h, w1, w2) :
               h \in 1..BlockRows, w1 \in 0..BlockCols, w2 \in 0..BlockCols }

InitFormat ==
    /\ pc = "sheet"
    /\ sheet_matrix \in FormatSheets
    /\ format_section = <<>>
    /\ got_cell = [returned |-> None, raised |-> None]
    /\ IdleRoutine
    /\ IdleAddr
    /\ IdleList
    /\ IdleAnchor
    /\ IdleEncoder
    /\ IdleBest
    /\ IdleMeta

GenerateAggregatedFormatSection ==
    /\ pc = "sheet"
    /\ format_section' = generate_aggregated_format_section(sheet_matrix)
    /\ pc' = "section"
    /\ UNCHANGED <<routineVars, got_cell, sheet_matrix, addrVars, listVars, anchorVars, encoderVars,
                   bestVars, metaVars>>

NextFormat == GenerateAggregatedFormatSection

SpecFormat == InitFormat /\ [][NextFormat]_vars

\* The cells of the group of a key.
GroupCells(key) ==
    { rc \in (1..sheet_matrix.max_row) \X (1..sheet_matrix.max_col) :
          LET c == get_cell(sheet_matrix, rc[1], rc[2])
          IN  Populated(c) /\ (data_type_key(c) = key \/ format_key(c) = key) }

Top(S) == CHOOSE r \in { x[1] : x \in S } : \A x \in S : r <= x[1]
Bottom(S) == CHOOSE r \in { x[1] : x \in S } : \A x \in S : r >= x[1]
Left(S) == CHOOSE c \in { x[2] : x \in S } : \A x \in S : c <= x[2]
Right(S) == CHOOSE c \in { x[2] : x \in S } : \A x \in S : c >= x[2]

\* S is a filled w x h block with w >= 2, h >= 2 and more than 5 cells.
FilledBlock(S) ==
    /\ S # {}
    /\ S = (Top(S)..Bottom(S)) \X (Left(S)..Right(S))
    /\ Right(S) - Left(S) >= 1
    /\ Bottom(S) - Top(S) >= 1
    /\ Cardinality(S) > 5

OneRange(S) ==
    << get_cell_address(Top(S), Left(S)) \o <<Colon>>
       \o get_cell_address(Bottom(S), Right(S)) >>

\* C18 as stated: a group whose cells fill a w x h block, w >= 2, h >= 2,
\* more than 5 cells, has exactly the one entry topLeft:bottomRight.
FilledBlockOneRange ==
    pc = "section" =>
        \A key \in DOMAIN format_section :
            FilledBlock(GroupCells(key)) =>
                format_section[key] = OneRange(GroupCells(key))

\* C18, amended: the same, for blocks of at most HeightLimit rows.
FilledBlockOneRangeUpToLimit ==
    pc = "section" =>
        \A key \in DOMAIN format_section :
            (/\ FilledBlock(GroupCells(key))
             /\ Bottom(GroupCells(key)) - Top(GroupCells(key)) + 1 <= HeightLimit) =>
                format_section[key] = OneRange(GroupCells(key))

FilledBlockOneRangeUpToLimitWitness ==
    /\ pc = "section"
    /\ \E key \in DOMAIN format_section :
           /\ FilledBlock(GroupCells(key))
           /\ Bottom(GroupCells(key)) - Top(GroupCells(key)) + 1 = HeightLimit
           /\ Top(GroupCells(key)) = 1
           /\ format_section[key] = OneRange(GroupCells(key))


\* The merged ranges of a sheet, as a set.
MergedSet(sheet) == { sheet.merged_cells[i] : i \in 1..Len(sheet.merged_cells) }

EndpointsRetained(m) ==
    /\ m[1] \in rows_to_keep \/ m[3] \in rows_to_keep
    /\ m[2] \in cols_to_keep \/ m[4] \in cols_to_keep

\* C20: after anchor extraction a merged range of the input is in the
\* output, as it was, if and only if one of its row endpoints is a retained
\* row and one of its column endpoints a retained column; the output holds
\* no range that the input does not hold (none clipped, none added), and
\* none twice.
MergedRangesKeptIffEndpoints ==
    pc = "applied" =>
        /\ \A m \in MergedSet(sheet_matrix) :
               m \in MergedSet(compressed_matrix) <=> EndpointsRetained(m)
        /\ MergedSet(compressed_matrix) \subseteq MergedSet(sheet_matrix)
        /\ Len(compressed_matrix.merged_cells)
               = Cardinality(MergedSet(compressed_matrix))

\* A range is kept whole though one of its row endpoints is dropped, and
\* another is dropped, its column not being retained, though its row
\* endpoints are.
MergedRangesKeptIffEndpointsWitness ==
    /\ pc = "applied"
    /\ \E m \in MergedSet(compressed_matrix) :
           (m[1] \notin rows_to_keep \/ m[3] \notin rows_to_keep)
    /\ \E m \in MergedSet(sheet_matrix) :
           /\ m \notin MergedSet(compressed_matrix)
           /\ (m[1] \in rows_to_keep /\ m[3] \in rows_to_keep)

(***************************************************************************)
(* Specification of anchor expansion: _expand_anchors on an anchor set of  *)
(* an axis of max_index indices, with a proximity.  The anchors are        *)
(* indices of the axis, as _find_anchor_rows and _find_anchor_cols give.   *)
(***************************************************************************)
InitExpand ==
    /\ pc = "anchors"
    /\ max_index \in 0..MaxAxis
    /\ anchors \in SUBSET (1..max_index)
    /\ anchor_proximity \in 0..MaxProximity
    /\ expanded = {}
    /\ anchor_rows = {}
    /\ anchor_cols = {}
    /\ chunking = NoChunking
    /\ compressed_index = <<>>
    /\ strategies = <<>>
    /\ rows_to_keep = {}
    /\ cols_to_keep = {}
    /\ compressed_matrix = None
    /\ IdleSheet
    /\ IdleAddr
    /\ IdleList
    /\ IdleEncoder
    /\ IdleBest
    /\ IdleMeta
    /\ IdleGrid

ExpandAnchors ==
    /\ pc = "anchors"
    /\ expanded' = expand_anchors(anchors, max_index, anchor_proximity)
    /\ pc' = "expanded"
    /\ UNCHANGED <<compressed_index, strategies, anchors, max_index, anchor_rows, anchor_cols, chunking, anchorVars,
                   sheet_matrix, addrVars, listVars,
                   encoderVars, bestVars, metaVars, gridVars>>

NextExpand == ExpandAnchors

SpecExpand == InitExpand /\ [][NextExpand]_vars

Distance(i, a) == IF i >= a THEN i - a ELSE a - i

\* C21: the set returned holds exactly the indices of 1..max_index within
\* the proximity of an anchor; with proximity 0 it is the anchor set; it
\* holds no index outside 1..max_index.
AnchorExpansion ==
    pc = "expanded" =>
        /\ expanded = { i \in 1..max_index :
                          \E a \in anchors : Distance(i, a) <= anchor_proximity }
        /\ anchor_proximity = 0 => expanded = anchors
        /\ expanded \subseteq 1..max_index

\* An anchor at each end of the axis, whose neighbours outside are left out.
AnchorExpansionWitness ==
    /\ pc = "expanded"
    /\ anchor_proximity >= 1
    /\ anchors = {1, max_index}
    /\ max_index >= 4
    /\ expanded # anchors
    /\ expanded # 1..max_index

(***************************************************************************)
(* Specification of anchor detection: _find_anchor_rows and                *)
(* _find_anchor_cols on sheets up to MaxFindAxis long on one axis and two  *)
(* on the other.  A sheet is made of rows that follow a row                *)
(* pattern, or of columns that follow a column pattern: "blank", "number"  *)
(* (the integer 1 in the first cell), "colored" (the integer 1 on a        *)
(* background colour in every cell) or "header".                           *)
(***************************************************************************)
ColoredCell ==
    Cell([t |-> "int", s |-> "1"], "INT_NUM", CellFormat({}, "FFFF00", None, {}))

ColPatterns == {"blank", "number", "colored", "header"}

PatternCol(pattern, max_row) ==
    [r \in 1..max_row |->
        CASE pattern = "blank" -> NoCell
          [] pattern = "number" -> IF r = 1 THEN NumberCell ELSE EmptyCell
          [] pattern = "colored" -> ColoredCell
          [] OTHER -> HeaderCell]

ColSheetOf(n, m, pat) ==
    SheetMatrix([r \in 1..n |-> [c \in 1..m |-> PatternCol(pat[c], n)[r]]],
                <<>>, "Sheet1", n, m)

InitFind ==
    /\ pc = "sheet"
    /\ \/ \E n \in 1..MaxFindAxis : \E pat \in [1..n -> RowPatterns] :
              sheet_matrix = SheetOf(n, 2, pat, <<>>)
       \/ \E m \in 1..MaxFindAxis : \E pat \in [1..m -> ColPatterns] :
              sheet_matrix = ColSheetOf(2, m, pat)
    /\ anchor_rows = {}
    /\ anchor_cols = {}
    /\ anchors = {}
    /\ max_index = 0
    /\ expanded = {}
    /\ chunking = NoChunking
    /\ compressed_index = <<>>
    /\ strategies = <<>>
    /\ IdleAddr
    /\ IdleList
    /\ IdleAnchor
    /\ IdleEncoder
    /\ IdleBest
    /\ IdleMeta
    /\ IdleGrid

FindAnchorRows ==
    /\ pc = "sheet"
    /\ anchor_rows' = find_anchor_rows(sheet_matrix)
    /\ pc' = "rows"
    /\ UNCHANGED <<compressed_index, strategies, anchor_cols, anchors, max_index, expanded, chunking, sheet_matrix, addrVars,
                   listVars, anchorVars, encoderVars, bestVars, metaVars, gridVars>>

FindAnchorCols ==
    /\ pc = "rows"
    /\ anchor_cols' = find_anchor_cols(sheet_matrix)
    /\ pc' = "found"
    /\ UNCHANGED <<compressed_index, strategies, anchor_rows, anchors, max_index, expanded, chunking, sheet_matrix, addrVars,
                   listVars, anchorVars, encoderVars, bestVars, metaVars, gridVars>>

NextFind == FindAnchorRows \/ FindAnchorCols

SpecFind == InitFind /\ [][NextFind]_vars

\* The rows and columns that reach a threshold (given doubled).
RowsAtLeast(threshold2) ==
    { r \in 1..sheet_matrix.max_row : RowScore2(sheet_matrix, r) >= threshold2 }
ColsAtLeast(threshold2) ==
    { c \in 1..sheet_matrix.max_col : ColScoreAtLeast(sheet_matrix, c, threshold2) }

Ends(n) == IF n > 0 THEN {1, n} ELSE {}

\* The secondary threshold applies to an axis: it has more than 5 indices
\* and fewer than 3 anchors after the primary threshold and the forced ends.
SecondaryApplies(primary, n) ==
    n > SecondaryMinAxis /\ Cardinality(primary \cup Ends(n)) < MinAnchors

\* C22: where the secondary threshold applies, every row or column scoring
\* 2.0 or more is an anchor; where it does not, no row or column scoring
\* less than 3.0 is an anchor, the first and the last excepted.
SecondaryThreshold ==
    pc = "found" =>
        /\ IF SecondaryApplies(RowsAtLeast(PrimaryThreshold2), sheet_matrix.max_row)
           THEN RowsAtLeast(SecondaryThreshold2) \subseteq anchor_rows
           ELSE anchor_rows \ RowsAtLeast(PrimaryThreshold2)
                    \subseteq Ends(sheet_matrix.max_row)
        /\ IF SecondaryApplies(ColsAtLeast(PrimaryThreshold2), sheet_matrix.max_col)
           THEN ColsAtLeast(SecondaryThreshold2) \subseteq anchor_cols
           ELSE anchor_cols \ ColsAtLeast(PrimaryThreshold2)
                    \subseteq Ends(sheet_matrix.max_col)

\* A column under 3.0, inside the sheet, is an anchor by the secondary
\* threshold, and on a shorter axis a column of the same score is none.
SecondaryThresholdWitness ==
    /\ pc = "found"
    /\ SecondaryApplies(ColsAtLeast(PrimaryThreshold2), sheet_matrix.max_col)
    /\ \E c \in anchor_cols \ {1, sheet_matrix.max_col} :
           ~ColScoreAtLeast(sheet_matrix, c, PrimaryThreshold2)
    /\ \E c \in 1..sheet_matrix.max_col : c \notin anchor_cols

(***************************************************************************)
(* Specification of chunk sizing: lines 64-69 of _chunk_encode_sheet on    *)
(* the sheets of the encoding specification, with budgets on both sides of *)
(* the two limits of the chunk size.                                       *)
(***************************************************************************)
SizeBudgets ==
    {-100, -1, 0, 99, 1999, 2000, 2099, 2100, 2550, 19999, 20000, 20100, 30000}

InitSize ==
    /\ pc = "sheet"
    /\ \E n \in 1..MaxEncRow :
           \E head \in [1..Min(n, HeadRows) -> HeadPatterns] :
               sheet_matrix = EncSheet(n, head)
    /\ max_tokens \in SizeBudgets
    /\ use_inverted_index = TRUE
    /\ use_format_aggregation = TRUE
    /\ token_count = 0
    /\ encoded = None
    /\ error = None
    /\ chunk_calls = 0
    /\ chunking = NoChunking
    /\ compressed_index = <<>>
    /\ strategies = <<>>
    /\ anchors = {}
    /\ max_index = 0
    /\ expanded = {}
    /\ anchor_rows = {}
    /\ anchor_cols = {}
    /\ IdleAddr
    /\ IdleList
    /\ IdleAnchor
    /\ IdleBest
    /\ IdleMeta
    /\ IdleGrid

ChunkSizing ==
    /\ pc = "sheet"
    /\ chunking' = [header_rows |-> detect_header_rows(sheet_matrix),
                    rows_per_chunk |-> rows_per_chunk(max_tokens),
                    num_chunks |-> num_chunks(sheet_matrix, max_tokens)]
    /\ pc' = "sized"
    /\ UNCHANGED <<compressed_index, strategies, anchors, max_index, expanded, anchor_rows, anchor_cols, sheet_matrix,
                   encoderVars, addrVars, listVars, anchorVars, bestVars, metaVars,
                   gridVars>>

NextSize == ChunkSizing

SpecSize == InitSize /\ [][NextSize]_vars

\* C23: rows_per_chunk is floor(budget / 100) brought into 20..200, and
\* num_chunks is the least number of chunks of that size that hold the rows
\* that are not header rows.
ChunkSizingClamp ==
    pc = "sized" =>
        LET rpc == chunking.rows_per_chunk
            body == sheet_matrix.max_row - Cardinality(chunking.header_rows)
        IN  /\ rpc >= MinRowsPerChunk /\ rpc <= MaxRowsPerChunk
            /\ rpc > MinRowsPerChunk => max_tokens >= TokensPerRow * rpc
            /\ rpc < MaxRowsPerChunk => max_tokens < TokensPerRow * (rpc + 1)
            /\ (chunking.num_chunks - 1) * rpc < body
            /\ body <= chunking.num_chunks * rpc

\* A budget over the upper limit, and the rows need more than one chunk.
ChunkSizingClampWitness ==
    /\ pc = "sized"
    /\ max_tokens > TokensPerRow * (MaxRowsPerChunk + 1)
    /\ chunking.rows_per_chunk = MaxRowsPerChunk
    /\ chunking.header_rows # {}


\* The cells claimed when entry i of a group was emitted: those of the
\* rectangles before it.
ClaimedBefore(entries, i) ==
    UNION { EntryCells(entries[j]) : j \in 1..(i - 1) }

\* The row directly below a rectangle, across its columns.
RowBelow(e) == {LastOf(e)[1] + 1} \X (FirstOf(e)[2]..LastOf(e)[2])

IsRectangle(e) == HasColon(e) /\ EntryHeight(e) >= 2

\* Some cell of the row below is not of the group, or is claimed.
RowBelowIncomplete(key, entries, i) ==
    \E rc \in RowBelow(entries[i]) :
        rc \notin GroupCells(key) \/ rc \in ClaimedBefore(entries, i)

\* C24 as stated: below every rectangle emitted, whatever its height, some
\* cell across its columns is missing from the group or already claimed.
RectangleHeightMaximal ==
    pc = "section" =>
        \A key \in DOMAIN format_section :
            \A i \in 1..Len(format_section[key]) :
                IsRectangle(format_section[key][i]) =>
                    RowBelowIncomplete(key, format_section[key], i)

\* C24, amended: the same for every rectangle of fewer than HeightLimit
\* rows, and no rectangle has more rows than that.
RectangleHeightMaximalUpToLimit ==
    pc = "section" =>
        \A key \in DOMAIN format_section :
            \A i \in 1..Len(format_section[key]) :
                IsRectangle(format_section[key][i]) =>
                    /\ EntryHeight(format_section[key][i]) <= HeightLimit
                    /\ EntryHeight(format_section[key][i]) < HeightLimit =>
                           RowBelowIncomplete(key, format_section[key], i)

\* A rectangle of fewer rows than the limit was emitted, and the row below
\* it holds a cell of the group and lacks another.
RectangleHeightMaximalUpToLimitWitness ==
    /\ pc = "section"
    /\ \E key \in DOMAIN format_section :
           \E i \in 1..Len(format_section[key]) :
               /\ IsRectangle(format_section[key][i])
               /\ EntryHeight(format_section[key][i]) > 2
               /\ EntryHeight(format_section[key][i]) < HeightLimit
               /\ RowBelow(format_section[key][i]) \cap GroupCells(key) # {}
               /\ ~(RowBelow(format_section[key][i]) \subseteq GroupCells(key))


(***************************************************************************)
(* Core/encoder.py, _generate_inverted_index_text.                         *)
(*                                                                         *)
(* A key "prefix:value_str" of value_to_cells is the pair                  *)
(* <<prefix, value_str>>: the prefix is one letter, so that                *)
(* key.split(":", 1)[1] is the second component.  The text returned is the *)
(* JSON object of compressed_index, which is modelled by that dict.        *)
(***************************************************************************)
\* Lines 203-208: "N" for the two number types, else the first letter of
\* the name of the data type.
type_prefix(cell) ==
    CASE cell.data_type \in {"INT_NUM", "FLOAT_NUM"} -> "N"
      [] cell.data_type = "TEXT" -> "T"
      [] cell.data_type = "BOOLEAN" -> "B"
      [] cell.data_type = "EMPTY" -> "E"

\* Lines 210-213.
index_key(cell) == <<type_prefix(cell), cell.value.s>>

\* Lines 199-202 and 214: the addresses appended under a key, in order.
value_to_cells(sheet, key) ==
    LET HasKey(rc) ==
            LET cell == get_cell(sheet, rc[1], rc[2])
            IN  Populated(cell) /\ index_key(cell) = key
        members == SelectSeq(RowMajor(sheet), HasKey)
    IN  <<>> \o [i \in 1..Len(members) |->
                    get_cell_address(members[i][1], members[i][2])]

\* The keys of value_to_cells, and the place of a key in its insertion
\* order: the first coordinate, in the order of the loops, that has it.
index_keys(sheet) ==
    { index_key(get_cell(sheet, rc[1], rc[2])) :
          rc \in { x \in (1..sheet.max_row) \X (1..sheet.max_col) :
                       Populated(get_cell(sheet, x[1], x[2])) } }

first_seen(sheet, key) ==
    CHOOSE k \in 1..(sheet.max_row * sheet.max_col) :
        LET At(j) == get_cell(sheet, RowMajor(sheet)[j][1], RowMajor(sheet)[j][2])
        IN  /\ Populated(At(k)) /\ index_key(At(k)) = key
            /\ \A j \in 1..(k - 1) : ~(Populated(At(j)) /\ index_key(At(j)) = key)

\* Lines 215-216: the cells that are not populated are counted.
empty_count(sheet) ==
    Cardinality({ rc \in (1..sheet.max_row) \X (1..sheet.max_col) :
                      ~Populated(get_cell(sheet, rc[1], rc[2])) })

\* Lines 219-224: compressed_index[output_key] is assigned for each key in
\* insertion order, so of the keys that share an output key the last one
\* stays.
output_entry(sheet, output_key) ==
    LET sharing == { key \in index_keys(sheet) : key[2] = output_key }
        kept == CHOOSE key \in sharing :
                    \A other \in sharing :
                        first_seen(sheet, other) <= first_seen(sheet, key)
    IN  compress_address_ranges(value_to_cells(sheet, kept))

\* Lines 219-231.
generate_inverted_index_text(sheet) ==
    LET output_keys == { key[2] : key \in index_keys(sheet) }
    IN  [output_key \in output_keys
             \cup (IF empty_count(sheet) > 0 THEN {"__empty_cells"} ELSE {}) |->
            IF output_key = "__empty_cells" /\ empty_count(sheet) > 0
            THEN empty_count(sheet)
            ELSE output_entry(sheet, output_key)]

(***************************************************************************)
(* Specification of the inverted index: the dict generated for a sheet     *)
(* whose rows hold no cells, an integer among valueless cells, texts, the  *)
(* boolean True, the text "True", or the boolean followed by the text.     *)
(***************************************************************************)
BoolCell == Cell([t |-> "bool", s |-> "True"], "BOOLEAN", PlainFormat)
TrueTextCell == Cell([t |-> "str", s |-> "True"], "TEXT", PlainFormat)

IndexPatterns == {"blank", "number", "header", "bool", "true", "mixed"}

IndexRow(pattern, max_col) ==
    IF pattern \in RowPatterns THEN PatternRow(pattern, max_col)
    ELSE [c \in 1..max_col |->
            CASE pattern = "bool" -> BoolCell
              [] pattern = "true" -> TrueTextCell
              [] pattern = "mixed" -> IF c = 1 THEN BoolCell ELSE TrueTextCell]

IndexSheet(n, m, pat) ==
    SheetMatrix([r \in 1..n |-> IndexRow(pat[r], m)], <<>>, "Sheet1", n, m)

InitIndex ==
    /\ pc = "sheet"
    /\ \E n \in 1..MaxIndexRow, m \in 1..MaxCol :
           \E pat \in [1..n -> IndexPatterns] : sheet_matrix = IndexSheet(n, m, pat)
    /\ compressed_index = <<>>
    /\ strategies = <<>>
    /\ chunking = NoChunking
    /\ anchors = {}
    /\ max_index = 0
    /\ expanded = {}
    /\ anchor_rows = {}
    /\ anchor_cols = {}
    /\ IdleAddr
    /\ IdleList
    /\ IdleAnchor
    /\ IdleEncoder
    /\ IdleBest
    /\ IdleMeta
    /\ IdleGrid

GenerateInvertedIndexText ==
    /\ pc = "sheet"
    /\ compressed_index' = generate_inverted_index_text(sheet_matrix)
    /\ pc' = "indexed"
    /\ UNCHANGED <<anchors, max_index, expanded, anchor_rows, anchor_cols, chunking,
                   strategies, sheet_matrix, addrVars, listVars, anchorVars, encoderVars,
                   bestVars, metaVars, gridVars>>

NextIndex == GenerateInvertedIndexText

SpecIndex == InitIndex /\ [][NextIndex]_vars

\* The populated cells of the sheet, and the cells the entries listed under
\* a value stand for.
PopulatedCells ==
    { rc \in (1..sheet_matrix.max_row) \X (1..sheet_matrix.max_col) :
          Populated(get_cell(sheet_matrix, rc[1], rc[2])) }

ValueKeys == DOMAIN compressed_index \ {"__empty_cells"}

CoveredUnder(v) ==
    UNION { EntryCells(compressed_index[v][i]) : i \in 1..Len(compressed_index[v]) }

EmptyCount ==
    IF "__empty_cells" \in DOMAIN compressed_index
    THEN compressed_index["__empty_cells"] ELSE 0

\* C25: every populated cell is covered by exactly one entry of the list
\* under its stringified value; no entry covers an absent cell or a cell of
\* another value; the covered addresses and the __empty_cells count add up
\* to max_row * max_col; also when cells of different types have the same
\* string.
InvertedIndexLossless ==
    pc = "indexed" =>
        /\ \A rc \in PopulatedCells :
               LET v == get_cell(sheet_matrix, rc[1], rc[2]).value.s
               IN  /\ v \in ValueKeys
                   /\ Cardinality({ i \in 1..Len(compressed_index[v]) :
                          rc \in EntryCells(compressed_index[v][i]) }) = 1
        /\ \A v \in ValueKeys :
               \A rc \in CoveredUnder(v) :
                   /\ rc \in PopulatedCells
                   /\ get_cell(sheet_matrix, rc[1], rc[2]).value.s = v
        /\ Cardinality(UNION { CoveredUnder(v) : v \in ValueKeys }) + EmptyCount
               = sheet_matrix.max_row * sheet_matrix.max_col

\* The same on the sheets where no two keys share an output key.
InvertedIndexLosslessDistinct ==
    (\A a, b \in index_keys(sheet_matrix) : a[2] = b[2] => a = b) =>
        InvertedIndexLossless


\* Row r of the sheet is in chunk i of the chunked document: the rows left
\* out of a chunk's sub-matrix hold no cells, and every row of the sheets of
\* the encoding specification holds some.
IncludedIn(i, r) ==
    encoded.chunks[i].chunk_matrix.matrix[r] = sheet_matrix.matrix[r]

\* C26: in the chunked document every header row is in every chunk and every
\* other row of 1..max_row is in exactly one chunk, whatever the header set;
\* the row ranges of the chunks are disjoint and ascending, and none spans
\* more than rows_per_chunk rows.
ChunkRowCoverage ==
    (pc = "encoded" /\ encoded.kind = "chunked") =>
        LET header_rows == detect_header_rows(sheet_matrix)
            chunks == encoded.chunks
        IN  /\ \A i \in 1..Len(chunks) : \A h \in header_rows : IncludedIn(i, h)
            /\ \A r \in (1..sheet_matrix.max_row) \ header_rows :
                   Cardinality({ i \in 1..Len(chunks) : IncludedIn(i, r) }) = 1
            /\ \A i, j \in 1..Len(chunks) :
                   i < j => chunks[i].chunk_end < chunks[j].chunk_start
            /\ \A i \in 1..Len(chunks) :
                   chunks[i].chunk_end - chunks[i].chunk_start + 1
                       <= rows_per_chunk(max_tokens)

\* The same on the sheets whose header rows are the first rows and leave
\* rows to the chunks.
ChunkRowCoverageContiguous ==
    (LET header_rows == detect_header_rows(sheet_matrix)
     IN  header_rows = 1..Cardinality(header_rows)) => ChunkRowCoverage

\* C27: the number of chunks emitted is the num_chunks of every label, the
\* indices of the labels are 1, 2, ... in order, and a sheet of one row or
\* more has at least one chunk.
ChunkLabelsConsistent ==
    (pc = "encoded" /\ encoded.kind = "chunked") =>
        /\ \A i \in 1..Len(encoded.chunks) :
               /\ encoded.chunks[i].num_chunks = Len(encoded.chunks)
               /\ encoded.chunks[i].chunk_idx = i
        /\ sheet_matrix.max_row >= 1 => Len(encoded.chunks) >= 1

\* The same on the sheets that have a row below a header set that is made of
\* the first rows.
ChunkLabelsConsistentContiguous ==
    (LET header_rows == detect_header_rows(sheet_matrix)
     IN  /\ header_rows = 1..Cardinality(header_rows)
         /\ Cardinality(header_rows) < sheet_matrix.max_row) =>
        ChunkLabelsConsistent


\* The cells an entry of _compress_address_ranges expands to: the address
\* itself, or the cells of the row of `first` from its column to the column
\* of `last`.
RowExpansion(e) ==
    IF HasColon(e)
    THEN {FirstOf(e)[1]} \X (FirstOf(e)[2]..LastOf(e)[2])
    ELSE { <<ParseCoordinate(e)[1], ParseCoordinate(e)[2]>> }

\* C28: the expansion of the output of _compress_address_ranges is exactly
\* the input set, every input cell being in one entry only, and every range
\* first:last lies in one row and spans 3 cells or more.
RangeCompressionLossless ==
    pc = "compressed" =>
        /\ \A rc \in InputCells :
               Cardinality({ i \in 1..Len(ranges) : rc \in RowExpansion(ranges[i]) }) = 1
        /\ UNION { RowExpansion(ranges[i]) : i \in 1..Len(ranges) } = InputCells
        /\ \A i \in 1..Len(ranges) :
               HasColon(ranges[i]) =>
                   /\ FirstOf(ranges[i])[1] = LastOf(ranges[i])[1]
                   /\ LastOf(ranges[i])[2] - FirstOf(ranges[i])[2] + 1 >= 3

\* A range and a run of two left as it is, on an input of two rows that
\* crosses from column Z to column AA.
RangeCompressionLosslessWitness ==
    /\ pc = "compressed"
    /\ \E i \in 1..Len(ranges) : HasColon(ranges[i])
    /\ \E a, b \in InputCells : a[1] # b[1]
    /\ \E a, b \in InputCells : a[1] = b[1] /\ a[2] = 26 /\ b[2] = 27
    /\ \E i \in 1..Len(ranges) :
           /\ ~HasColon(ranges[i])
           /\ \E j \in 1..Len(ranges) :
                  /\ ~HasColon(ranges[j])
                  /\ ParseCoordinate(ranges[j])[1] = ParseCoordinate(ranges[i])[1]
                  /\ ParseCoordinate(ranges[j])[2] = ParseCoordinate(ranges[i])[2] + 1


\* C29: for an input of 4 distinct addresses or more, every input address
\* is covered by exactly one entry of the output of _find_rectangles (a
\* rectangle, a leftover range or a leftover address), and the entries
\* together cover the input set and nothing else.
RectangleCoverComplete ==
    (pc = "rectangles" /\ Len(addresses) >= 4) =>
        /\ \A rc \in InputCells :
               Cardinality({ i \in 1..Len(rectangles) :
                                 rc \in EntryCells(rectangles[i]) }) = 1
        /\ UNION { EntryCells(rectangles[i]) : i \in 1..Len(rectangles) } = InputCells

\* A rectangle is followed by a leftover range and by a leftover address.
RectangleCoverCompleteWitness ==
    /\ pc = "rectangles"
    /\ Len(addresses) >= 4
    /\ Len(found) >= 1
    /\ \E i \in (Len(found) + 1)..Len(rectangles) : HasColon(rectangles[i])
    /\ \E i \in (Len(found) + 1)..Len(rectangles) : ~HasColon(rectangles[i])

\* The consequence of C29 for the format section: every populated cell of a
\* group is covered by exactly one entry under the key of the group, and the
\* entries of a key cover cells of its group only.
FormatGroupsCovered ==
    pc = "section" =>
        /\ \A key \in group_keys(sheet_matrix) :
               /\ key \in DOMAIN format_section
               /\ \A rc \in GroupCells(key) :
                      Cardinality({ i \in 1..Len(format_section[key]) :
                          rc \in EntryCells(format_section[key][i]) }) = 1
        /\ \A key \in DOMAIN format_section :
               UNION { EntryCells(format_section[key][i]) :
                           i \in 1..Len(format_section[key]) } = GroupCells(key)


(***************************************************************************)
(* Core/compressor.py: SheetCompressor.compress_and_save and               *)
(* compress_spreadsheet_to_file.                                           *)
(*                                                                         *)
(* The outcome of a call is the text written to the output file (or        *)
(* NoText), the dict returned (or NoResult) and the exception that left    *)
(* the call (or None).  A ratio is the pair <<numerator, denominator>>.    *)
(***************************************************************************)
\* SheetCompressor.__init__, lines 225-232.
compressor_strategies(use_structural_anchors) ==
    IF use_structural_anchors THEN <<"StructuralAnchorStrategy">> ELSE <<>>

\* SheetCompressor.compress, lines 238-245: each strategy of the list is
\* applied.
compress(sheet, strategy_list, proximity) ==
    IF strategy_list = <<>> THEN sheet
    ELSE apply_with(sheet,
                    expand_anchors(find_anchor_rows(sheet), sheet.max_row, proximity),
                    expand_anchors(find_anchor_cols(sheet), sheet.max_col, proximity))

\* Lines 268-271 and 277-280: the cells that hold a value.
cell_count(sheet) ==
    Cardinality({ rc \in (1..sheet.max_row) \X (1..sheet.max_col) :
                      Populated(get_cell(sheet, rc[1], rc[2])) })

\* Lines 263-264 and 291.  The sheet names of the model hold no space.
output_filename(sheet, prefix) ==
    <<IF prefix = None THEN sheet.sheet_name ELSE prefix, "_combined_all_modules.json">>

\* Lines 297-309.
save_stats(sheet, compressed, strategy_list, inverted, aggregation, tokens, prefix) ==
    [sheet_name |-> sheet.sheet_name,
     original_dimensions |-> <<sheet.max_row, sheet.max_col>>,
     original_cell_count |-> cell_count(sheet),
     compressed_cell_count |-> cell_count(compressed),
     compression_ratio |-> <<cell_count(compressed), cell_count(sheet)>>,
     token_count |-> tokens,
     output_file |-> output_filename(sheet, prefix),
     compression_strategies |-> strategy_list,
     encoding_options |-> [inverted_index |-> inverted,
                           format_aggregation |-> aggregation]]

\* Lines 287-316: the file is opened and written (293-294), then the
\* statistics are compiled, the ratio compressed_cell_count /
\* original_cell_count among them (302), and returned.  Nothing in the try
\* block raises the ValueError of line 313: encode_sheet catches its own
\* (encoder.py, lines 55-57).
save_outcome(original_cell_count, text, stats, opened) ==
    IF ~opened
    THEN [written |-> NoText, returned |-> NoResult, raised |-> "OSError"]
    ELSE IF original_cell_count = 0
    THEN [written |-> text, returned |-> NoResult, raised |-> "ZeroDivisionError"]
    ELSE [written |-> text, returned |-> stats, raised |-> None]

\* compress_and_save, given the token estimates of the direct text and of
\* the text returned, and whether open() succeeds.
compress_and_save(sheet, prefix, strategy_list, proximity, budget, inverted, aggregation, estimate, tokens, opened) ==
    LET compressed == compress(sheet, strategy_list, proximity)
        text == encode_sheet(compressed, budget, inverted, aggregation, estimate).returned
    IN  save_outcome(cell_count(sheet), text,
                     save_stats(sheet, compressed, strategy_list, inverted,
                                aggregation, tokens, prefix),
                     opened)

\* Lines 318-345: a compressor is made of the arguments and its
\* compress_and_save is called.
compress_spreadsheet_to_file(sheet, prefix, use_structural_anchors, inverted, aggregation, proximity, budget, estimate, tokens, opened) ==
    compress_and_save(sheet, prefix, compressor_strategies(use_structural_anchors),
                      proximity, budget, inverted, aggregation, estimate, tokens, opened)

(***************************************************************************)
(* Specification of saving: one call of compress_and_save on a compressor  *)
(* made with or without the anchor strategy, or one call of                *)
(* compress_spreadsheet_to_file, on a sheet of blank, number and header    *)
(* rows.                                                                    *)
(***************************************************************************)
InitSave ==
    /\ pc = "call"
    /\ \E n \in 1..MaxIndexRow, m \in 1..EncCols :
           \E pat \in [1..n -> RowPatterns] : sheet_matrix = SheetOf(n, m, pat, <<>>)
    /\ anchor_proximity \in 0..MaxProximity
    /\ strategies \in {compressor_strategies(b) : b \in BOOLEAN}
    /\ max_tokens \in Budgets
    /\ \E b \in BOOLEAN : use_inverted_index = b /\ use_format_aggregation = b
    /\ filename_prefix \in {None, "book"}
    /\ rows_to_keep = {}
    /\ cols_to_keep = {}
    /\ compressed_matrix = None
    /\ token_count = 0
    /\ encoded = None
    /\ error = None
    /\ chunk_calls = 0
    /\ original_tokens = 0
    /\ method_idx = 0
    /\ best_ratio = None
    /\ best_method = None
    /\ best_encoded = NoText
    /\ evaluated = <<>>
    /\ output_file = NoText
    /\ result = NoResult
    /\ original_encoded = NoText
    /\ module_globals = {}
    /\ anchors = {}
    /\ max_index = 0
    /\ expanded = {}
    /\ anchor_rows = {}
    /\ anchor_cols = {}
    /\ chunking = NoChunking
    /\ compressed_index = <<>>
    /\ IdleAddr
    /\ IdleList
    /\ IdleMeta
    /\ IdleGrid

Saved(call) ==
    /\ output_file' = call.written
    /\ result' = call.returned
    /\ error' = call.raised
    /\ pc' = "done"
    /\ UNCHANGED <<sheet_matrix, anchor_proximity, rows_to_keep, cols_to_keep,
                   compressed_matrix, max_tokens, use_inverted_index,
                   use_format_aggregation, token_count, encoded, chunk_calls,
                   original_tokens, method_idx, best_ratio, best_method, best_encoded,
                   evaluated, original_encoded, filename_prefix, module_globals,
                   anchors, max_index, expanded, anchor_rows, anchor_cols, chunking,
                   compressed_index, addrVars, listVars, metaVars, gridVars>>

CompressAndSave ==
    /\ pc = "call"
    /\ \E estimate \in {max_tokens, max_tokens + 1}, tokens \in {max_tokens, max_tokens + 1},
          opened \in BOOLEAN :
           /\ (estimate <= max_tokens => tokens = estimate)
           /\ Saved(compress_and_save(sheet_matrix, filename_prefix, strategies,
                                      anchor_proximity, max_tokens, use_inverted_index,
                                      use_format_aggregation, estimate, tokens, opened))
    /\ UNCHANGED strategies

CompressSpreadsheetToFile ==
    /\ pc = "call"
    /\ \E estimate \in {max_tokens, max_tokens + 1}, tokens \in {max_tokens, max_tokens + 1},
          opened \in BOOLEAN, use_structural_anchors \in BOOLEAN :
           /\ (estimate <= max_tokens => tokens = estimate)
           /\ strategies' = compressor_strategies(use_structural_anchors)
           /\ Saved(compress_spreadsheet_to_file(
                        sheet_matrix, filename_prefix, use_structural_anchors,
                        use_inverted_index, use_format_aggregation, anchor_proximity,
                        max_tokens, estimate, tokens, opened))

NextSave == CompressAndSave \/ CompressSpreadsheetToFile

SpecSave == InitSave /\ [][NextSave]_vars

\* C30: a call of compress_and_save or of compress_spreadsheet_to_file,
\* whatever the grid, has written the output file and returned the
\* statistics, or has written no file and returned an error record; no
\* exception leaves it after the file is written.
SaveWritesOrReports ==
    pc = "done" =>
        /\ \/ output_file # NoText /\ result # NoResult /\ "output_file" \in DOMAIN result
           \/ output_file = NoText /\ result # NoResult /\ "error" \in DOMAIN result
        /\ ~(output_file # NoText /\ error # None)

\* The same on the sheets that hold a populated cell, when the file can be
\* opened.
SaveWritesOrReportsPopulated ==
    (cell_count(sheet_matrix) > 0 /\ error # "OSError") => SaveWritesOrReports

\* The file of a sheet without a populated cell is written, and the call
\* ends with an exception.
SaveRaisedAfterWriting ==
    /\ pc = "done"
    /\ cell_count(sheet_matrix) = 0
    /\ output_file # NoText
    /\ error = "ZeroDivisionError"

====
